---- MODULE Spec2Model ----
(***************************************************************************)
(* Labs Pulse: poller, accumulator, boundary scheduler, finalization       *)
(* callback and the sharded snapshot store, as a state machine.            *)
(*                                                                         *)
(* Time is counted in scaled units: BUCKET_SIZE_MS units per bucket,       *)
(* DAY_MS units per day, months as listed in MonthStartMs.  All ratios     *)
(* the code relies on (a day is a whole number of buckets, a month a       *)
(* whole number of days) are kept.                                         *)
(***************************************************************************)
EXTENDS Integers, Sequences, FiniteSets, TLC

\* ------------------------------------------------------------------
\* Bounds of the model
\* ------------------------------------------------------------------
MaxTime == 9
MaxPolls == 1
MaxSeedRuns == 2
MaxCalls == 2
MaxLimit == 2
TimerSlack == 1

\* ------------------------------------------------------------------
\* Program constants (scaled)
\* ------------------------------------------------------------------
BUCKET_SIZE_MS == 2
DAY_MS == 4
RETRY_CAP == 3
WINDOW_LEN == 1

Null == -1

\* config.services, in configuration order
Services == <<"s1", "s2">>
ServiceIds == {Services[i] : i \in 1..Len(Services)}

\* latencies a successful attempt may measure; pings the seed script may draw
Latencies == {100, 5000}
SeedPings == {0, 150}

\* first instant of each calendar month on the scaled time line
MonthStartMs == <<0, 8, 12, 20>>
Months == 1..(Len(MonthStartMs) - 1)

Min(a, b) == IF a <= b THEN a ELSE b

\* ------------------------------------------------------------------
\* time.js
\* ------------------------------------------------------------------
\* the bucket start taken with Math.round: instants in the second half of
\* a bucket land on the next bucket
hourBucketUtcMsRound(tsMs) ==
    ((2 * tsMs + BUCKET_SIZE_MS) \div (2 * BUCKET_SIZE_MS)) * BUCKET_SIZE_MS

\* Math.floor(tsMs / bucketSize) * bucketSize

hourBucketUtcMs(tsMs) == (tsMs \div BUCKET_SIZE_MS) * BUCKET_SIZE_MS

\* the next boundary taken as bucket start plus one width: an instant on a
\* boundary gets the boundary after it
startOfNextUtcHourMsAfter(nowMs) ==
    (nowMs \div BUCKET_SIZE_MS) * BUCKET_SIZE_MS + BUCKET_SIZE_MS

\* Math.ceil(nowMs / bucketSize) * bucketSize

startOfNextUtcHourMs(nowMs) ==
    ((nowMs + BUCKET_SIZE_MS - 1) \div BUCKET_SIZE_MS) * BUCKET_SIZE_MS

monthKeyFromUtcMs(tsMs) ==
    CHOOSE m \in Months : MonthStartMs[m] <= tsMs /\ tsMs < MonthStartMs[m + 1]

\* last instant of month m (persistence.js, endOfMonth in pruneRetention)
EndOfMonthMs(m) == MonthStartMs[m + 1] - 1

\* ------------------------------------------------------------------
\* Sorting as Array.prototype.sort((a, b) => a - b) does it (stable)
\* ------------------------------------------------------------------
RECURSIVE InsertNum(_, _)
InsertNum(x, s) ==
    IF s = <<>> THEN <<x>>
    ELSE IF x < Head(s) THEN <<x>> \o s
    ELSE <<Head(s)>> \o InsertNum(x, Tail(s))

RECURSIVE SortNum(_)
SortNum(s) ==
    IF s = <<>> THEN <<>>
    ELSE InsertNum(s[Len(s)], SortNum(SubSeq(s, 1, Len(s) - 1)))

RECURSIVE InsertSnap(_, _)
InsertSnap(x, s) ==
    IF s = <<>> THEN <<x>>
    ELSE IF x.hour_utc_ms < Head(s).hour_utc_ms THEN <<x>> \o s
    ELSE <<Head(s)>> \o InsertSnap(x, Tail(s))

RECURSIVE SortSnaps(_)
SortSnaps(s) ==
    IF s = <<>> THEN <<>>
    ELSE InsertSnap(s[Len(s)], SortSnaps(SubSeq(s, 1, Len(s) - 1)))

\* Math.round((a + b) / 2) on non-negative integers: halves round up
RoundHalf(a, b) == (a + b + 1) \div 2


\* ------------------------------------------------------------------
\* State
\* ------------------------------------------------------------------
VARIABLES
    now,              \* Date.now()
    crashed,          \* the server process was killed
    retries,          \* config: service.retries per service id
    data,             \* accumulator.js: data[serviceId][bucket]
    polls,            \* number of performPoll runs so far
    seqs,             \* poller.js: one retry sequence per (poll, service)
    timeoutId,        \* scheduler: boundary the armed timer waits for
    lastEmitted,      \* scheduler
    runningBoundary,  \* scheduler
    cbs,              \* finalization callbacks in progress, by bucket
    emitted,          \* history: buckets onHour was invoked with, in order
    settled,          \* history: outcome of each settled callback, by bucket
    files,            \* data directory: shard files by <<serviceId, month>>
    written,          \* history: pings of the completed upserts, by <<serviceId, bucket>>
    seed,             \* scripts/seed.js process
    seedRuns,         \* number of seed runs started
    call              \* the last library or HTTP call: arguments and result

vars == <<now, crashed, retries, data, polls, seqs, timeoutId, lastEmitted,
          runningBoundary, cbs, emitted, settled, files, written, seed, seedRuns,
          call>>

pollerVars == <<polls, seqs>>
schedVars == <<timeoutId, lastEmitted, runningBoundary, cbs, emitted, settled>>
seedVars == <<seed, seedRuns>>
storeVars == <<files, written>>

EmptyFn == [x \in {} |-> Null]

\* no library or HTTP call yet; n counts the calls that changed state
NoCall == [n |-> 0, op |-> "none"]

\* f without key k
Without(f, k) == [x \in (DOMAIN f) \ {k} |-> f[x]]

\* ------------------------------------------------------------------
\* accumulator.js
\* ------------------------------------------------------------------
NewAggregate ==
    [samples_total |-> 0, samples_ok |-> 0, success_latencies |-> <<>>,
     recent_results |-> <<>>, last_check_ms |-> Null]

\* a full ring refuses the new flag instead of dropping the oldest
PushRecentDropsNewest(ring, ok) ==
    IF Len(ring) >= 10 THEN ring ELSE Append(ring, ok)

\* recent_results.push(ok); if (length > 10) shift()
PushRecent(ring, ok) ==
    LET pushed == Append(ring, ok)
    IN  IF Len(pushed) > 10 THEN Tail(pushed) ELSE pushed

recordSample(d, serviceId, timestampMs, ok, latencyMs) ==
    LET bucket == hourBucketUtcMs(timestampMs)
        old == IF bucket \in DOMAIN d[serviceId]
               THEN d[serviceId][bucket] ELSE NewAggregate
        upd == [samples_total |-> old.samples_total + 1,
                samples_ok |-> IF ok THEN old.samples_ok + 1 ELSE old.samples_ok,
                success_latencies |->
                    IF ok THEN Append(old.success_latencies, latencyMs)
                    ELSE old.success_latencies,
                recent_results |-> PushRecent(old.recent_results, ok),
                last_check_ms |-> timestampMs]
    IN  [d EXCEPT ![serviceId] = (bucket :> upd) @@ d[serviceId]]

\* the result object of getAndResetForHour
DrainResult(d, hourUtcMs) ==
    [s \in {x \in ServiceIds : hourUtcMs \in DOMAIN d[x]} |->
        [samples_total |-> d[s][hourUtcMs].samples_total,
         samples_ok |-> d[s][hourUtcMs].samples_ok,
         success_latencies |-> d[s][hourUtcMs].success_latencies]]

\* a drain that also clears every earlier bucket
DrainRestUpTo(d, hourUtcMs) ==
    [s \in ServiceIds |-> [b \in {x \in DOMAIN d[s] : x > hourUtcMs} |-> d[s][b]]]

\* getAndResetForHour without the delete
DrainRestKeepsBucket(d, hourUtcMs) == d

\* the accumulator after getAndResetForHour
DrainRest(d, hourUtcMs) ==
    [s \in ServiceIds |-> Without(d[s], hourUtcMs)]

\* ------------------------------------------------------------------
\* poller.js
\* ------------------------------------------------------------------
\* if (attempt <= service.retries && attempt <= 3)
ShouldRetry(attempt, serviceId) ==
    attempt <= retries[serviceId] /\ attempt <= RETRY_CAP

\* number of samples the accumulator holds for a service, over all buckets
SamplesOf(d, serviceId) ==
    LET RECURSIVE Sum(_)
        Sum(bs) == IF bs = {} THEN 0
                   ELSE LET b == CHOOSE x \in bs : TRUE
                        IN  d[serviceId][b].samples_total + Sum(bs \ {b})
    IN  Sum(DOMAIN d[serviceId])

\* a retry sequence is over: no request in flight, no retry timer pending
SeqOver(sq) == sq.inflight = 0 /\ sq.backoff = 0

\* performPoll: nowMs = Date.now(); every service starts its first attempt.
\* The interval of setInterval is longer than a retry sequence (60 s against
\* at most 4 attempts of 5 s with the defaults), so the sequences of the
\* previous poll are over; only those of the current poll are kept.
performPoll ==
    /\ ~crashed
    /\ polls < MaxPolls
    /\ \A q \in DOMAIN seqs : SeqOver(seqs[q])
    /\ polls' = polls + 1
    /\ seqs' = [q \in {polls + 1} \X ServiceIds |->
                  [nowMs |-> now, attempt |-> 1, inflight |-> 1,
                   backoff |-> 0, kinds |-> {}, recorded |-> 0]]
    /\ UNCHANGED <<now, crashed, retries, call, data, schedVars, storeVars, seedVars>>

\* the sequence after one of its requests left flight with outcome kind,
\* having changed the accumulator from d to d2; retry: a retry timer is set
AfterAttempt(sq, serviceId, kind, d, d2, retry) ==
    [sq EXCEPT !.inflight = @ - 1,
               !.kinds = @ \cup {kind},
               !.recorded = @ + SamplesOf(d2, serviceId) - SamplesOf(d, serviceId),
               !.backoff = IF retry THEN @ + 1 ELSE @]

\* the end handler stamping the sample with the time the response arrived
OnEndAtArrival(q, status2xx, latency) ==
    LET d2 == recordSample(data, q[2], now, status2xx,
                           IF status2xx THEN latency ELSE Null)
    IN  /\ data' = d2
        /\ seqs' = [seqs EXCEPT ![q] =
                       AfterAttempt(@, q[2], IF status2xx THEN "ok" ELSE "non2xx",
                                    data, d2, FALSE)]

\* res.on('end'): one sample, success iff 2xx; no retry is scheduled
OnEnd(q, status2xx, latency) ==
    LET d2 == recordSample(data, q[2], seqs[q].nowMs, status2xx,
                           IF status2xx THEN latency ELSE Null)
    IN  /\ data' = d2
        /\ seqs' = [seqs EXCEPT ![q] =
                       AfterAttempt(@, q[2], IF status2xx THEN "ok" ELSE "non2xx",
                                    data, d2, FALSE)]

\* req.on('error') (connection error, or the abort of the AbortController)
OnError(q) ==
    LET d2 == recordSample(data, q[2], seqs[q].nowMs, FALSE, Null)
    IN  /\ data' = d2
        /\ seqs' = [seqs EXCEPT ![q] =
                       AfterAttempt(@, q[2], "error", data, d2,
                                    ShouldRetry(seqs[q].attempt, q[2]))]

\* the timeout handler without req.destroy(): the request stays in flight
OnTimeoutKeepsRequest(q) ==
    LET d2 == recordSample(data, q[2], seqs[q].nowMs, FALSE, Null)
    IN  /\ data' = d2
        /\ seqs' = [seqs EXCEPT ![q] =
                       [AfterAttempt(@, q[2], "timeout", data, d2,
                                     ShouldRetry(seqs[q].attempt, q[2]))
                           EXCEPT !.inflight = @ + 1]]

\* req.on('timeout') (socket idle timeout): req.destroy(), sample, retry
OnTimeout(q) ==
    LET d2 == recordSample(data, q[2], seqs[q].nowMs, FALSE, Null)
    IN  /\ data' = d2
        /\ seqs' = [seqs EXCEPT ![q] =
                       AfterAttempt(@, q[2], "timeout", data, d2,
                                    ShouldRetry(seqs[q].attempt, q[2]))]

AttemptEnd ==
    /\ ~crashed
    /\ \E q \in DOMAIN seqs : \E status2xx \in BOOLEAN : \E latency \in Latencies :
        /\ seqs[q].inflight > 0
        /\ status2xx \/ latency = CHOOSE l \in Latencies : TRUE
        /\ OnEnd(q, status2xx, latency)
    /\ UNCHANGED <<now, crashed, retries, call, polls, schedVars, storeVars, seedVars>>

AttemptError ==
    /\ ~crashed
    /\ \E q \in DOMAIN seqs : seqs[q].inflight > 0 /\ OnError(q)
    /\ UNCHANGED <<now, crashed, retries, call, polls, schedVars, storeVars, seedVars>>

AttemptTimeout ==
    /\ ~crashed
    /\ \E q \in DOMAIN seqs : seqs[q].inflight > 0 /\ OnTimeout(q)
    /\ UNCHANGED <<now, crashed, retries, call, polls, schedVars, storeVars, seedVars>>

\* setTimeout(runAttempt, 100) fires: attempt++, the next request is sent
runAttempt ==
    /\ ~crashed
    /\ \E q \in DOMAIN seqs :
        /\ seqs[q].backoff > 0
        /\ seqs' = [seqs EXCEPT ![q].backoff = @ - 1,
                                ![q].attempt = @ + 1,
                                ![q].inflight = @ + 1]
    /\ UNCHANGED <<now, crashed, retries, call, data, polls, schedVars, storeVars, seedVars>>

\* the clock advances
Tick ==
    /\ now < MaxTime
    /\ now' = now + 1
    /\ UNCHANGED <<crashed, retries, call, data, pollerVars, schedVars, storeVars, seedVars>>


\* ------------------------------------------------------------------
\* persistence.js
\* ------------------------------------------------------------------
ShardKeys == ServiceIds \X Months

NoFile == [exists |-> FALSE, partial |-> FALSE, data |-> <<>>]

\* a completely written file holding the JSON of snaps
FullFile(snaps) == [exists |-> TRUE, partial |-> FALSE, data |-> snaps]

\* a file of which only a prefix of the JSON of snaps has been written
PartialFile(snaps) == [exists |-> TRUE, partial |-> TRUE, data |-> snaps]

\* the history of completed upserts after one more
Logged(w, serviceId, hourUtcMs, pingMs) ==
    LET key == <<serviceId, hourUtcMs>>
    IN  (key :> Append(IF key \in DOMAIN w THEN w[key] ELSE <<>>, pingMs)) @@ w

\* path.join(DATA_DIR, `${serviceId}-${monthKey}.json`)
ShardKey(serviceId, hourUtcMs) == <<serviceId, monthKeyFromUtcMs(hourUtcMs)>>

\* a reader that salvages the entries of an unparsable file
LoadShardSalvages(content) ==
    IF content.exists THEN content.data ELSE <<>>

\* readFile + JSON.parse inside try/catch: absent or unparsable gives []
LoadShard(content) ==
    IF content.exists /\ ~content.partial THEN content.data ELSE <<>>

\* push without looking for the bucket first
UpsertModifyAlwaysPush(existingData, hourUtcMs, pingMs) ==
    SortSnaps(Append(existingData, [hour_utc_ms |-> hourUtcMs, ping_ms |-> pingMs]))

\* findIndex / replace or push, then sort ascending by hour_utc_ms
UpsertModify(existingData, hourUtcMs, pingMs) ==
    LET newSnapshot == [hour_utc_ms |-> hourUtcMs, ping_ms |-> pingMs]
        hits == {i \in 1..Len(existingData) : existingData[i].hour_utc_ms = hourUtcMs}
        existingIndex == IF hits = {} THEN 0
                         ELSE CHOOSE i \in hits : \A j \in hits : i <= j
        replaced == IF existingIndex > 0
                    THEN [existingData EXCEPT ![existingIndex] = newSnapshot]
                    ELSE Append(existingData, newSnapshot)
    IN  SortSnaps(replaced)

\* writeFile aimed at the shard file itself
WritesInPlace == FALSE

\* the file the writeFile of an upsert is aimed at: the temporary file
WritesToTemp == TRUE

\* writeFile has started: part of the JSON of newData is on disk
WriteBegin(fs, key, newData) ==
    IF WritesToTemp
    THEN [tmp |-> PartialFile(newData), files |-> fs]
    ELSE [tmp |-> NoFile, files |-> [fs EXCEPT ![key] = PartialFile(newData)]]

\* writeFile has resolved: the whole JSON is on disk
WriteEnd(fs, key, tmp) ==
    IF WritesToTemp
    THEN [tmp |-> FullFile(tmp.data), files |-> fs]
    ELSE [tmp |-> NoFile, files |-> [fs EXCEPT ![key] = FullFile(fs[key].data)]]

\* fs.rename(tempPath, filePath)
Rename(fs, key, tmp) ==
    IF WritesToTemp THEN [fs EXCEPT ![key] = tmp] ELSE fs

\* entry.hour_utc_ms > cutoffMs: the entry at the cutoff is dropped too
RECURSIVE FilterFromStrict(_, _)
FilterFromStrict(snaps, cutoffMs) ==
    IF snaps = <<>> THEN <<>>
    ELSE IF Head(snaps).hour_utc_ms > cutoffMs
         THEN <<Head(snaps)>> \o FilterFromStrict(Tail(snaps), cutoffMs)
         ELSE FilterFromStrict(Tail(snaps), cutoffMs)

\* data.filter(entry => entry.hour_utc_ms >= cutoffMs)
RECURSIVE FilterFrom(_, _)
FilterFrom(snaps, cutoffMs) ==
    IF snaps = <<>> THEN <<>>
    ELSE IF Head(snaps).hour_utc_ms >= cutoffMs
         THEN <<Head(snaps)>> \o FilterFrom(Tail(snaps), cutoffMs)
         ELSE FilterFrom(Tail(snaps), cutoffMs)

\* pruneRetention on one listed shard file of month m
PruneOne(content, m, cutoffMs) ==
    IF ~content.exists THEN content
    ELSE IF EndOfMonthMs(m) < cutoffMs THEN NoFile
    ELSE IF content.partial THEN content
    ELSE LET filteredData == FilterFrom(content.data, cutoffMs)
         IN  IF Len(filteredData) = 0 THEN NoFile
             ELSE IF Len(filteredData) # Len(content.data)
                  THEN FullFile(filteredData)
                  ELSE content

\* cutoffMs = nowUtcMs - retentionDays * 24 * 60 * 60 * 1000
CutoffMs(retentionDays, nowUtcMs) == nowUtcMs - retentionDays * DAY_MS

pruneRetention(fs, cutoffMs) ==
    [k \in ShardKeys |-> PruneOne(fs[k], k[2], cutoffMs)]

\* config.retention_days
RETENTION_DAYS == 1

\* ------------------------------------------------------------------
\* finalization callback (index.js, the function passed to startScheduler)
\* ------------------------------------------------------------------
\* the lower middle value for an even count, no averaging
MedianLowerMiddle(latencies) ==
    latencies[(Len(latencies) + 1) \div 2]

\* Math.floor in place of Math.round
MedianFloor(latencies) ==
    LET len == Len(latencies)
    IN  IF len % 2 = 0
        THEN (latencies[len \div 2] + latencies[len \div 2 + 1]) \div 2
        ELSE latencies[len \div 2 + 1]

\* median of the sorted successful latencies
Median(latencies) ==
    LET len == Len(latencies)
    IN  IF len % 2 = 0
        THEN RoundHalf(latencies[len \div 2], latencies[len \div 2 + 1])
        ELSE latencies[len \div 2 + 1]

\* pingMs of one configured service from the drained accumulatorData
PingOf(accumulatorData, serviceId) ==
    IF serviceId \in DOMAIN accumulatorData
    THEN IF accumulatorData[serviceId].samples_ok > 0
         THEN Median(SortNum(accumulatorData[serviceId].success_latencies))
         ELSE 0
    ELSE 0


\* ------------------------------------------------------------------
\* scheduler.js
\* ------------------------------------------------------------------
\* the guard without the lastEmitted watermark
IsDoubleFireRunningOnly(completedHour) ==
    completedHour = runningBoundary

\* the timer callback without the guard
IsDoubleFireNever(completedHour) == FALSE

\* the guard that lets a bucket through again when its callback failed
IsDoubleFireOkOnly(completedHour) ==
    \/ completedHour = lastEmitted /\ settled[lastEmitted]
    \/ completedHour = runningBoundary

\* completedHour === lastEmitted || completedHour === runningBoundary
IsDoubleFire(completedHour) ==
    completedHour = lastEmitted \/ completedHour = runningBoundary

\* scheduleNext: the boundary the new timer waits for
scheduleNext(nowMs) == startOfNextUtcHourMs(nowMs)

\* scheduleNext called right after onHour was invoked, not in finally
TimerWhileRunningEager(nowMs) == scheduleNext(nowMs)

\* the timer while onHour runs: none, scheduleNext is called in finally only
TimerWhileRunning(nowMs) == Null

\* scheduleNext in .then only: a rejected callback ends the timeline
TimerAfterSettleOkOnly(nowMs, ok) == IF ok THEN scheduleNext(nowMs) ELSE Null

\* the next boundary counted on from the boundary just handled instead of
\* computed from the clock: no bucket is skipped after an overrun
TimerAfterSettleFromBoundary(nowMs, ok) == runningBoundary + 2 * BUCKET_SIZE_MS

\* the timer after the callback settled, resolved (ok) or rejected
TimerAfterSettle(nowMs, ok) == scheduleNext(nowMs)

\* the timer callback of scheduleNext; onHour runs up to its first await,
\* that is, it drains the accumulator
TimerFire ==
    /\ ~crashed
    /\ timeoutId # Null
    /\ now + TimerSlack >= timeoutId
    /\ LET nextBoundary == timeoutId
           completedHour == nextBoundary - BUCKET_SIZE_MS
       IN  IF IsDoubleFire(completedHour)
           THEN /\ timeoutId' = scheduleNext(now)
                /\ UNCHANGED <<lastEmitted, runningBoundary, cbs, emitted,
                               settled, data>>
           ELSE /\ runningBoundary' = completedHour
                /\ timeoutId' = TimerWhileRunning(now)
                /\ emitted' = Append(emitted, completedHour)
                /\ data' = DrainRest(data, completedHour)
                /\ cbs' = (completedHour :>
                              [pc |-> "read", idx |-> 1,
                               acc |-> DrainResult(data, completedHour),
                               existingData |-> <<>>, tmp |-> NoFile,
                               cutoffMs |-> Null]) @@ cbs
                /\ UNCHANGED <<lastEmitted, settled>>
    /\ UNCHANGED <<now, crashed, retries, call, pollerVars, storeVars, seedVars>>

\* a rejected upsert is logged but the loop of the callback goes on with
\* the next service, or with pruneRetention after the last one
SettleGoesOn(b, ok) ==
    /\ lastEmitted' = b
    /\ runningBoundary' = Null
    /\ timeoutId' = TimerAfterSettle(now, ok)
    /\ cbs' = IF ok THEN Without(cbs, b)
              ELSE LET cb == cbs[b]
                   IN  [cbs EXCEPT ![b] =
                          IF cb.idx = Len(Services)
                          THEN [cb EXCEPT !.pc = "prune", !.tmp = NoFile,
                                          !.existingData = <<>>,
                                          !.cutoffMs = CutoffMs(RETENTION_DAYS, now)]
                          ELSE [cb EXCEPT !.pc = "read", !.idx = cb.idx + 1,
                                          !.tmp = NoFile, !.existingData = <<>>]]
    /\ settled' = (b :> ok) @@ settled
    /\ UNCHANGED emitted

\* .catch(log).finally(...): the callback for bucket b has settled
Settle(b, ok) ==
    /\ lastEmitted' = b
    /\ runningBoundary' = Null
    /\ timeoutId' = TimerAfterSettle(now, ok)
    /\ cbs' = Without(cbs, b)
    /\ settled' = (b :> ok) @@ settled
    /\ UNCHANGED emitted

\* the service the loop of the callback for bucket b is at
CbService(b) == Services[cbs[b].idx]

\* writeHourlySnapshot, readFile of the shard
CbRead ==
    /\ ~crashed
    /\ \E b \in DOMAIN cbs :
        /\ cbs[b].pc = "read"
        /\ cbs' = [cbs EXCEPT ![b].pc = "write",
                              ![b].existingData =
                                  LoadShard(files[ShardKey(CbService(b), b)])]
    /\ UNCHANGED <<now, crashed, retries, call, data, pollerVars, timeoutId, lastEmitted,
                   runningBoundary, emitted, settled, storeVars, seedVars>>

\* writeHourlySnapshot, writeFile starts
CbWriteBegin ==
    /\ ~crashed
    /\ \E b \in DOMAIN cbs :
        /\ cbs[b].pc = "write"
        /\ LET newData == UpsertModify(cbs[b].existingData, b,
                                       PingOf(cbs[b].acc, CbService(b)))
               w == WriteBegin(files, ShardKey(CbService(b), b), newData)
           IN  /\ cbs' = [cbs EXCEPT ![b].pc = "writing", ![b].tmp = w.tmp]
               /\ files' = w.files
    /\ UNCHANGED <<now, crashed, retries, call, data, pollerVars, timeoutId, lastEmitted,
                   runningBoundary, emitted, settled, written, seedVars>>

\* writeHourlySnapshot, writeFile resolves
CbWriteEnd ==
    /\ ~crashed
    /\ \E b \in DOMAIN cbs :
        /\ cbs[b].pc = "writing"
        /\ LET w == WriteEnd(files, ShardKey(CbService(b), b), cbs[b].tmp)
           IN  /\ cbs' = [cbs EXCEPT ![b].pc = "rename", ![b].tmp = w.tmp]
               /\ files' = w.files
    /\ UNCHANGED <<now, crashed, retries, call, data, pollerVars, timeoutId, lastEmitted,
                   runningBoundary, emitted, settled, written, seedVars>>

\* the callback going on to pruneRetention after its first upsert
CbAfterUpsertPrunesEarly(cb, nowMs) ==
    [cb EXCEPT !.pc = "prune", !.tmp = NoFile, !.existingData = <<>>,
               !.cutoffMs = CutoffMs(RETENTION_DAYS, nowMs)]

\* the callback after the upsert of service idx resolved: the next service,
\* or pruneRetention(config.retention_days, Date.now()) after the last one
CbAfterUpsert(cb, nowMs) ==
    IF cb.idx = Len(Services)
    THEN [cb EXCEPT !.pc = "prune", !.tmp = NoFile, !.existingData = <<>>,
                    !.cutoffMs = CutoffMs(RETENTION_DAYS, nowMs)]
    ELSE [cb EXCEPT !.pc = "read", !.idx = @ + 1, !.tmp = NoFile,
                    !.existingData = <<>>]

\* writeHourlySnapshot, rename resolves
CbRename ==
    /\ ~crashed
    /\ \E b \in DOMAIN cbs :
        /\ cbs[b].pc = "rename"
        /\ files' = Rename(files, ShardKey(CbService(b), b), cbs[b].tmp)
        /\ written' = Logged(written, CbService(b), b, PingOf(cbs[b].acc, CbService(b)))
        /\ cbs' = [cbs EXCEPT ![b] = CbAfterUpsert(cbs[b], now)]
    /\ UNCHANGED <<now, crashed, retries, call, data, pollerVars, timeoutId, lastEmitted,
                   runningBoundary, emitted, settled, seedVars>>

\* mkdir, writeFile or rename rejects: writeHourlySnapshot throws, the
\* callback rejects, the scheduler logs the error and goes on
CbIoError ==
    /\ ~crashed
    /\ \E b \in DOMAIN cbs :
        /\ cbs[b].pc \in {"read", "writing", "rename"}
        /\ Settle(b, FALSE)
    /\ UNCHANGED <<now, crashed, retries, call, data, pollerVars, storeVars, seedVars>>

\* pruneRetention resolves (its own errors are caught: readdir failing
\* leaves every file as it is), the callback resolves
CbPrune ==
    /\ ~crashed
    /\ \E b \in DOMAIN cbs :
        /\ cbs[b].pc = "prune"
        /\ \/ files' = pruneRetention(files, cbs[b].cutoffMs)
           \/ files' = files
        /\ Settle(b, TRUE)
    /\ UNCHANGED <<now, crashed, retries, call, data, pollerVars, written, seedVars>>

\* the server process is killed
Crash ==
    /\ ~crashed
    /\ crashed' = TRUE
    /\ UNCHANGED <<now, retries, call, data, pollerVars, schedVars, storeVars, seedVars>>

\* ------------------------------------------------------------------
\* scripts/seed.js: a second process upserting the recent window
\* ------------------------------------------------------------------
SeedIdle ==
    [pc |-> "idle", idx |-> 1, t |-> Null, startT |-> Null, endT |-> Null,
     ping |-> 0, existingData |-> <<>>, tmp |-> NoFile]

\* main(): the window of completed buckets ending before the current one
SeedStart ==
    /\ seed.pc = "idle"
    /\ seedRuns < MaxSeedRuns
    /\ seedRuns' = seedRuns + 1
    /\ LET currentBucketStart == (now \div BUCKET_SIZE_MS) * BUCKET_SIZE_MS
           endBucketStart == currentBucketStart - BUCKET_SIZE_MS
           startBucketStart == endBucketStart - (WINDOW_LEN - 1) * BUCKET_SIZE_MS
       IN  seed' = [SeedIdle EXCEPT !.pc = "read", !.t = startBucketStart,
                                    !.startT = startBucketStart,
                                    !.endT = endBucketStart]
    /\ UNCHANGED <<now, crashed, retries, call, data, pollerVars, schedVars, storeVars>>

\* the random ping is drawn, writeHourlySnapshot reads the shard
SeedRead ==
    /\ seed.pc = "read"
    /\ \E ping \in SeedPings :
        seed' = [seed EXCEPT !.pc = "write", !.ping = ping,
                             !.existingData =
                                 LoadShard(files[ShardKey(Services[seed.idx], seed.t)])]
    /\ UNCHANGED <<now, crashed, retries, call, data, pollerVars, schedVars, storeVars, seedRuns>>

SeedWriteBegin ==
    /\ seed.pc = "write"
    /\ LET newData == UpsertModify(seed.existingData, seed.t, seed.ping)
           w == WriteBegin(files, ShardKey(Services[seed.idx], seed.t), newData)
       IN  /\ seed' = [seed EXCEPT !.pc = "writing", !.tmp = w.tmp]
           /\ files' = w.files
    /\ UNCHANGED <<now, crashed, retries, call, data, pollerVars, schedVars, written, seedRuns>>

SeedWriteEnd ==
    /\ seed.pc = "writing"
    /\ LET w == WriteEnd(files, ShardKey(Services[seed.idx], seed.t), seed.tmp)
       IN  /\ seed' = [seed EXCEPT !.pc = "rename", !.tmp = w.tmp]
           /\ files' = w.files
    /\ UNCHANGED <<now, crashed, retries, call, data, pollerVars, schedVars, written, seedRuns>>

\* the two loops of main() after an upsert resolved
SeedAfterUpsert(sd) ==
    IF sd.t + BUCKET_SIZE_MS <= sd.endT
    THEN [sd EXCEPT !.pc = "read", !.t = @ + BUCKET_SIZE_MS, !.tmp = NoFile,
                    !.existingData = <<>>]
    ELSE IF sd.idx < Len(Services)
    THEN [sd EXCEPT !.pc = "read", !.idx = @ + 1, !.t = sd.startT, !.tmp = NoFile,
                    !.existingData = <<>>]
    ELSE SeedIdle

SeedRename ==
    /\ seed.pc = "rename"
    /\ files' = Rename(files, ShardKey(Services[seed.idx], seed.t), seed.tmp)
    /\ written' = Logged(written, Services[seed.idx], seed.t, seed.ping)
    /\ seed' = SeedAfterUpsert(seed)
    /\ UNCHANGED <<now, crashed, retries, call, data, pollerVars, schedVars, seedRuns>>

\* an upsert rejects: "Seed failed", process.exit(1)
SeedIoError ==
    /\ seed.pc \in {"read", "writing", "rename"}
    /\ seed' = SeedIdle
    /\ UNCHANGED <<now, crashed, retries, call, data, pollerVars, schedVars, storeVars, seedRuns>>

\* ------------------------------------------------------------------
\* accumulator.js, read side, and the live ping of routes.js
\* ------------------------------------------------------------------
\* getCurrentHourData returning null
NoData == [none |-> TRUE]

\* config: service.slow_threshold_ms (default)
SLOW_THRESHOLD_MS == 1000

\* the arrays handed out without the spread copy: the caller holds the
\* stored arrays themselves
getCurrentHourDataNoCopy(d, serviceId, hourUtcMs) ==
    IF serviceId \in DOMAIN d /\ hourUtcMs \in DOMAIN d[serviceId]
    THEN [samples_total |-> d[serviceId][hourUtcMs].samples_total,
          samples_ok |-> d[serviceId][hourUtcMs].samples_ok,
          success_latencies |-> d[serviceId][hourUtcMs].success_latencies,
          recent_results |-> d[serviceId][hourUtcMs].recent_results,
          last_check_ms |-> d[serviceId][hourUtcMs].last_check_ms,
          alias |-> TRUE]
    ELSE NoData

\* getCurrentHourData: the counters and fresh copies ([...array]) of the two
\* arrays; alias tells whether success_latencies of the result is the
\* stored array itself
getCurrentHourData(d, serviceId, hourUtcMs) ==
    IF serviceId \in DOMAIN d /\ hourUtcMs \in DOMAIN d[serviceId]
    THEN [samples_total |-> d[serviceId][hourUtcMs].samples_total,
          samples_ok |-> d[serviceId][hourUtcMs].samples_ok,
          success_latencies |-> d[serviceId][hourUtcMs].success_latencies,
          recent_results |-> d[serviceId][hourUtcMs].recent_results,
          last_check_ms |-> d[serviceId][hourUtcMs].last_check_ms,
          alias |-> FALSE]
    ELSE NoData

\* recent_results.slice(-2) is [false, false]
LastTwoFailed(recent_results) ==
    /\ Len(recent_results) >= 2
    /\ recent_results[Len(recent_results) - 1] = FALSE
    /\ recent_results[Len(recent_results)] = FALSE

\* calculatePingMs reaches data.success_latencies.sort(...), which sorts
\* the array of its argument in place
SortsLatencies(currentHourData) ==
    /\ currentHourData # NoData
    /\ currentHourData.samples_ok # 0
    /\ ~LastTwoFailed(currentHourData.recent_results)

\* calculatePingMs without the check of the last two results
calculatePingMsMedianOnly(currentHourData) ==
    IF currentHourData = NoData THEN 0
    ELSE IF currentHourData.samples_ok = 0 THEN 0
    ELSE LET latencies == SortNum(currentHourData.success_latencies)
             len == Len(latencies)
         IN  IF len % 2 = 0
             THEN RoundHalf(latencies[len \div 2], latencies[len \div 2 + 1])
             ELSE latencies[len \div 2 + 1]

\* calculatePingMs of GET /snapshots
calculatePingMs(currentHourData) ==
    IF currentHourData = NoData THEN 0
    ELSE IF currentHourData.samples_ok = 0 THEN 0
    ELSE IF LastTwoFailed(currentHourData.recent_results) THEN 0
    ELSE LET latencies == SortNum(currentHourData.success_latencies)
             len == Len(latencies)
         IN  IF len % 2 = 0
             THEN RoundHalf(latencies[len \div 2], latencies[len \div 2 + 1])
             ELSE latencies[len \div 2 + 1]

\* calculatePingMs of GET /health
healthCalculatePingMs(currentHourData) ==
    IF currentHourData = NoData THEN 0
    ELSE IF currentHourData.samples_ok = 0 THEN 0
    ELSE IF LastTwoFailed(currentHourData.recent_results) THEN 0
    ELSE LET latencies == SortNum(currentHourData.success_latencies)
             len == Len(latencies)
         IN  IF len % 2 = 0
             THEN RoundHalf(latencies[len \div 2], latencies[len \div 2 + 1])
             ELSE latencies[len \div 2 + 1]

\* the live reads when calculatePingMs is handed the stored aggregate: its
\* sort reorders the stored latencies
AfterLiveReadsSortsStored(d, ids, hourUtcMs, peeked) ==
    [s \in DOMAIN d |->
        IF s \in ids /\ SortsLatencies(peeked[s])
        THEN [d[s] EXCEPT ![hourUtcMs].success_latencies = SortNum(@)]
        ELSE d[s]]

\* the accumulator after the live reads of bucket hourUtcMs for the services
\* ids: an in-place sort reaches the stored array only through an alias
AfterLiveReads(d, ids, hourUtcMs, peeked) ==
    [s \in DOMAIN d |->
        IF s \in ids /\ SortsLatencies(peeked[s]) /\ peeked[s].alias
        THEN [d[s] EXCEPT ![hourUtcMs].success_latencies = SortNum(@)]
        ELSE d[s]]

\* config: slow_threshold_ms of each service
SlowThresholdOf == ("s1" :> SLOW_THRESHOLD_MS) @@ ("s2" :> 300)

\* the color with "<" for "<=": a ping equal to the threshold is not green
HealthOfStrict(lastPingMs, slow_threshold_ms) ==
    [status |-> IF lastPingMs > 0 THEN "up" ELSE "down",
     color |-> IF lastPingMs > 0 /\ lastPingMs < slow_threshold_ms THEN "green"
               ELSE IF lastPingMs > slow_threshold_ms THEN "yellow"
               ELSE "red"]

\* status and color of GET /health
HealthOf(lastPingMs, slow_threshold_ms) ==
    [status |-> IF lastPingMs > 0 THEN "up" ELSE "down",
     color |-> IF lastPingMs > 0 /\ lastPingMs <= slow_threshold_ms THEN "green"
               ELSE IF lastPingMs > slow_threshold_ms THEN "yellow"
               ELSE "red"]

\* instants a sample may carry: the nowMs of the poll it belongs to, which
\* for a late retry may lie in the previous bucket
SampleInstants(nowMs) ==
    {nowMs} \cup {t \in {hourBucketUtcMs(nowMs) - 1} : t >= 0}

\* outcome and latency of a sample
Outcomes == {<<TRUE, 100>>, <<TRUE, 201>>, <<FALSE, Null>>}

\* the poller records a sample
RecordSampleCall ==
    /\ call.n < MaxCalls
    /\ \E s \in ServiceIds : \E t \in SampleInstants(now) : \E o \in Outcomes :
         /\ data' = recordSample(data, s, t, o[1], o[2])
         /\ call' = [n |-> call.n + 1, op |-> "recordSample", serviceId |-> s,
                     timestampMs |-> t, ok |-> o[1], latencyMs |-> o[2]]
    /\ UNCHANGED <<now, crashed, retries, pollerVars, schedVars, storeVars, seedVars>>

\* the finalization callback up to its first await: getAndResetForHour and
\* the ping of every configured service
DrainCall ==
    /\ call.n < MaxCalls
    /\ \E b \in {hourBucketUtcMs(now), hourBucketUtcMs(now) - BUCKET_SIZE_MS} :
         LET accumulatorData == DrainResult(data, b)
         IN  /\ data' = DrainRest(data, b)
             /\ call' = [n |-> call.n + 1, op |-> "getAndResetForHour",
                         hourUtcMs |-> b, result |-> accumulatorData,
                         pings |-> [s \in ServiceIds |-> PingOf(accumulatorData, s)]]
    /\ UNCHANGED <<now, crashed, retries, pollerVars, schedVars, storeVars, seedVars>>

\* ------------------------------------------------------------------
\* server.js and the locals the handlers of routes.js read
\* ------------------------------------------------------------------
\* startServer: the keys of app.locals once the server listens
appLocals == {"config"}

\* the keys of req.app.locals the handlers read
RouterLocals == {"config", "accumulator"}

\* the catch of a handler: res.status(500).json({ error })
InternalError(op) ==
    [n |-> call.n, op |-> op, status |-> 500, error |-> "Internal server error"]

\* the handler of GET /health on an application with the given locals;
\* without locals.accumulator the first accumulator.getCurrentHourData
\* throws and the catch answers
getHealth(locals) ==
    LET currentBucket == hourBucketUtcMs(now)
        peeked == [s \in ServiceIds |->
                      getCurrentHourData(data, s, currentBucket)]
        pings == [s \in ServiceIds |-> healthCalculatePingMs(peeked[s])]
    IN  IF "accumulator" \in locals
        THEN /\ data' = AfterLiveReads(data, ServiceIds, currentBucket, peeked)
             /\ call' = [n |-> call.n, op |-> "health", status |-> 200,
                         bucket |-> currentBucket,
                         peeked |-> peeked, pings |-> pings,
                         services |-> [s \in ServiceIds |->
                                          HealthOf(pings[s], SlowThresholdOf[s])]]
        ELSE /\ data' = data
             /\ call' = InternalError("health")

\* GET /health of the router on an application that carries the accumulator
HealthRequest ==
    /\ getHealth(RouterLocals)
    /\ UNCHANGED <<now, crashed, retries, pollerVars, schedVars, storeVars, seedVars>>

\* GET /health of the server startServer builds
ServerHealthRequest ==
    /\ getHealth(appLocals)
    /\ UNCHANGED <<now, crashed, retries, pollerVars, schedVars, storeVars, seedVars>>

\* ------------------------------------------------------------------
\* time.js and persistence.js, read side
\* ------------------------------------------------------------------
\* the while loop of getMonthKeysBetween: currentDate <= toDate
RECURSIVE MonthKeysFrom(_, _)
MonthKeysFrom(m, toUtcMs) ==
    IF m <= Len(MonthStartMs) /\ MonthStartMs[m] <= toUtcMs
    THEN <<m>> \o MonthKeysFrom(m + 1, toUtcMs)
    ELSE <<>>

\* currentDate starts at the first day of the month of fromUtcMs
getMonthKeysBetween(fromUtcMs, toUtcMs) ==
    MonthKeysFrom(monthKeyFromUtcMs(fromUtcMs), toUtcMs)

\* monthData.filter(entry => from <= entry.hour_utc_ms <= to)
RECURSIVE FilterRange(_, _, _)
FilterRange(snaps, fromUtcMs, toUtcMs) ==
    IF snaps = <<>> THEN <<>>
    ELSE IF Head(snaps).hour_utc_ms >= fromUtcMs /\ Head(snaps).hour_utc_ms <= toUtcMs
         THEN <<Head(snaps)>> \o FilterRange(Tail(snaps), fromUtcMs, toUtcMs)
         ELSE FilterRange(Tail(snaps), fromUtcMs, toUtcMs)

\* the loop over monthKeys of readSnapshots: concat of the filtered shards
RECURSIVE ReadMonths(_, _, _, _, _)
ReadMonths(fs, serviceId, monthKeys, fromUtcMs, toUtcMs) ==
    IF monthKeys = <<>> THEN <<>>
    ELSE FilterRange(LoadShard(fs[<<serviceId, Head(monthKeys)>>]), fromUtcMs, toUtcMs)
         \o ReadMonths(fs, serviceId, Tail(monthKeys), fromUtcMs, toUtcMs)

\* slice(-limit): the latest entries are kept
ApplyLimitKeepsLatest(snaps, limit) ==
    IF limit # Null /\ limit # 0 /\ Len(snaps) > limit
    THEN SubSeq(snaps, Len(snaps) - limit + 1, Len(snaps))
    ELSE snaps

\* if (limit && length > limit) slice(0, limit)
ApplyLimit(snaps, limit) ==
    IF limit # Null /\ limit # 0 /\ Len(snaps) > limit
    THEN SubSeq(snaps, 1, limit)
    ELSE snaps

\* the result object of readSnapshots, one entry per requested service
readSnapshots(fs, serviceIds, fromUtcMs, toUtcMs, limit) ==
    LET monthKeys == getMonthKeysBetween(fromUtcMs, toUtcMs)
    IN  [s \in {serviceIds[i] : i \in 1..Len(serviceIds)} |->
            ApplyLimit(SortSnaps(ReadMonths(fs, s, monthKeys, fromUtcMs, toUtcMs)),
                       limit)]

\* getLatestSnapshot returning null
NoSnapshot == [none |-> TRUE]

\* prevMonth.setUTCMonth(prevMonth.getUTCMonth() - 1): the same day of the
\* month and time of day one month earlier; a day the earlier month does
\* not have runs over into the month after it
PrevMonthDate(beforeUtcMs) ==
    LET m == monthKeyFromUtcMs(beforeUtcMs)
    IN  MonthStartMs[m - 1] + (beforeUtcMs - MonthStartMs[m])

\* monthData.filter(entry => entry.hour_utc_ms <= beforeUtcMs)
RECURSIVE FilterUpTo(_, _)
FilterUpTo(snaps, beforeUtcMs) ==
    IF snaps = <<>> THEN <<>>
    ELSE IF Head(snaps).hour_utc_ms <= beforeUtcMs
         THEN <<Head(snaps)>> \o FilterUpTo(Tail(snaps), beforeUtcMs)
         ELSE FilterUpTo(Tail(snaps), beforeUtcMs)

\* filteredData sorted descending (stable), element 0
FirstDescending(snaps) ==
    snaps[CHOOSE i \in 1..Len(snaps) :
             \A j \in 1..Len(snaps) :
                 \/ snaps[i].hour_utc_ms > snaps[j].hour_utc_ms
                 \/ snaps[i].hour_utc_ms = snaps[j].hour_utc_ms /\ i <= j]

\* the loop over monthKeys of getLatestSnapshot
RECURSIVE LatestIn(_, _, _, _)
LatestIn(fs, serviceId, monthKeys, beforeUtcMs) ==
    IF monthKeys = <<>> THEN NoSnapshot
    ELSE LET filteredData ==
                 FilterUpTo(LoadShard(fs[<<serviceId, Head(monthKeys)>>]), beforeUtcMs)
         IN  IF Len(filteredData) > 0 THEN FirstDescending(filteredData)
             ELSE LatestIn(fs, serviceId, Tail(monthKeys), beforeUtcMs)

getLatestSnapshot(fs, serviceId, beforeUtcMs) ==
    LET currentMonthKey == monthKeyFromUtcMs(beforeUtcMs)
        prevMonthKey == monthKeyFromUtcMs(PrevMonthDate(beforeUtcMs))
        monthKeys == IF prevMonthKey # currentMonthKey
                     THEN <<currentMonthKey, prevMonthKey>>
                     ELSE <<currentMonthKey>>
    IN  LatestIn(fs, serviceId, monthKeys, beforeUtcMs)

\* a shard that keeps entries is rewritten even when nothing was filtered
PruneOpAlwaysRewrites(content, m, cutoffMs) ==
    IF ~content.exists THEN "none"
    ELSE IF EndOfMonthMs(m) < cutoffMs THEN "unlink"
    ELSE IF content.partial THEN "none"
    ELSE IF Len(FilterFrom(content.data, cutoffMs)) = 0 THEN "unlink"
    ELSE "rewrite"

\* what pruneRetention does to one listed shard file of month m
PruneOp(content, m, cutoffMs) ==
    IF ~content.exists THEN "none"
    ELSE IF EndOfMonthMs(m) < cutoffMs THEN "unlink"
    ELSE IF content.partial THEN "none"
    ELSE LET filteredData == FilterFrom(content.data, cutoffMs)
         IN  IF Len(filteredData) = 0 THEN "unlink"
             ELSE IF Len(filteredData) # Len(content.data) THEN "rewrite"
             ELSE "none"

\* a store read is being answered
ReadPending == call.op \in {"snapshots", "getLatestSnapshot"}

\* the result of the store read was handed back; store reads are looked at
\* one at a time
Respond ==
    /\ ReadPending
    /\ call' = [n |-> call.n, op |-> "none"]
    /\ UNCHANGED <<now, crashed, retries, data, pollerVars, schedVars, storeVars, seedVars>>

\* instants a getLatestSnapshot call may ask for
LatestInstants == MonthStartMs[2] .. (MonthStartMs[Len(MonthStartMs)] - 1)

\* getLatestSnapshot(serviceId, beforeUtcMs)
LatestCall ==
    /\ ~ReadPending
    /\ \E s \in ServiceIds : \E t \in LatestInstants :
         call' = [n |-> call.n, op |-> "getLatestSnapshot", serviceId |-> s,
                  beforeUtcMs |-> t, result |-> getLatestSnapshot(files, s, t)]
    /\ UNCHANGED <<now, crashed, retries, data, pollerVars, schedVars, storeVars, seedVars>>

\* retention windows, in days
RetentionChoices == 0..3

\* pruneRetention(retentionDays, Date.now()), run to its end; the service ids
\* are ones whose shard file names its file-name pattern accepts
PruneCall ==
    /\ call.n < MaxCalls
    /\ \E retentionDays \in RetentionChoices :
         LET cutoffMs == CutoffMs(retentionDays, now)
             repeats == /\ call.op = "pruneRetention"
                        /\ call.retentionDays = retentionDays
                        /\ call.nowUtcMs = now
         IN  /\ files' = pruneRetention(files, cutoffMs)
             /\ call' = [n |-> call.n + 1, op |-> "pruneRetention",
                         retentionDays |-> retentionDays, nowUtcMs |-> now,
                         ops |-> [k \in ShardKeys |-> PruneOp(files[k], k[2], cutoffMs)],
                         repeats |-> repeats,
                         lastOps |-> IF repeats THEN call.ops ELSE EmptyFn]
    /\ UNCHANGED <<now, crashed, retries, data, pollerVars, schedVars, written, seedVars>>

\* ------------------------------------------------------------------
\* persistence.js, shard file names: texts are sequences of characters
\* ------------------------------------------------------------------
\* `${serviceId}-${monthKey}.json`, the month key of month m being the text
\* YYYY-MM that monthKeyFromUtcMs gives the months of the time line
ShardFileName(idText, m) ==
    LET digits == <<"0", "1", "2", "3", "4", "5", "6", "7", "8", "9">>
        monthKey == <<"2", "0", "2", "5", "-", "0", digits[m + 1]>>
    IN  idText \o <<"-">> \o monthKey \o <<".", "j", "s", "o", "n">>

\* the two file.match calls of pruneRetention on a directory entry:
\* isDataFile is the test /^[a-zA-Z0-9_-]+-\d{4}-\d{2}\.json$/, year and
\* month are parseInt of the groups of the leftmost /(\d{4})-(\d{2})/
MatchFileName(file) ==
    LET digits == <<"0", "1", "2", "3", "4", "5", "6", "7", "8", "9">>
        IsDigit(c) == \E n \in 1..Len(digits) : digits[n] = c
        IsIdChar(c) ==
            \/ IsDigit(c)
            \/ c \in {"_", "-"}
            \/ c \in {"a", "b", "c", "d", "e", "f", "g", "h", "i", "j", "k", "l",
                      "m", "n", "o", "p", "q", "r", "s", "t", "u", "v", "w", "x",
                      "y", "z"}
            \/ c \in {"A", "B", "C", "D", "E", "F", "G", "H", "I", "J", "K", "L",
                      "M", "N", "O", "P", "Q", "R", "S", "T", "U", "V", "W", "X",
                      "Y", "Z"}
        DigitValue(c) == (CHOOSE n \in 1..Len(digits) : digits[n] = c) - 1
        RECURSIVE ParseInt(_)
        ParseInt(text) ==
            IF text = <<>> THEN 0
            ELSE Len(digits) * ParseInt(SubSeq(text, 1, Len(text) - 1))
                 + DigitValue(text[Len(text)])
        suffix == <<".", "j", "s", "o", "n">>
        patternLen == Len(<<"Y", "Y", "Y", "Y", "-", "M", "M">>)
        PatternAt(i) ==
            /\ i >= 1
            /\ i + patternLen - 1 <= Len(file)
            /\ \A j \in 0..(patternLen - 1) :
                 IF j = 4 THEN file[i + j] = "-" ELSE IsDigit(file[i + j])
        tailLen == 1 + patternLen + Len(suffix)
        n == Len(file)
        isDataFile ==
            /\ n > tailLen
            /\ \A i \in 1..(n - tailLen) : IsIdChar(file[i])
            /\ file[n - tailLen + 1] = "-"
            /\ PatternAt(n - tailLen + 2)
            /\ SubSeq(file, n - Len(suffix) + 1, n) = suffix
        first == CHOOSE p \in 1..n :
                     PatternAt(p) /\ \A q \in 1..(p - 1) : ~PatternAt(q)
    IN  IF isDataFile
        THEN [isDataFile |-> TRUE,
              year |-> ParseInt(SubSeq(file, first, first + 3)),
              month |-> ParseInt(SubSeq(file, first + 5, first + 6))]
        ELSE [isDataFile |-> FALSE]

\* pruneRetention on one directory entry: files the pattern rejects are
\* left alone, the others are judged by the first YYYY-MM of their name;
\* a month of a year before the time line ended long before every cutoff
PruneNamed(content, file, cutoffMs) ==
    LET match == MatchFileName(file)
        endOfMonth == IF match.year = 2025 /\ match.month \in Months
                      THEN EndOfMonthMs(match.month)
                      ELSE 0 - 1000 * DAY_MS
    IN  IF ~content.exists THEN content
        ELSE IF ~match.isDataFile THEN content
        ELSE IF endOfMonth < cutoffMs THEN NoFile
        ELSE IF content.partial THEN content
        ELSE LET filteredData == FilterFrom(content.data, cutoffMs)
             IN  IF Len(filteredData) = 0 THEN NoFile
                 ELSE IF Len(filteredData) # Len(content.data)
                      THEN FullFile(filteredData)
                      ELSE content

\* ids a services.json may give its services: loadConfig takes s.id as it is
ConfigIds ==
    { <<"s", "1">>,
      <<"a", ".", "b">>,
      <<"s", "-", "2", "0", "2", "0", "-", "0", "1">> }

\* writeHourlySnapshot(serviceId, hourUtcMs, pingMs) for a configured id,
\* run to its end
NamedUpsertCall ==
    /\ call.n < MaxCalls
    /\ \E id \in ConfigIds : \E ping \in SeedPings :
         LET hourUtcMs == hourBucketUtcMs(now) - BUCKET_SIZE_MS
             k == <<id, monthKeyFromUtcMs(hourUtcMs)>>
         IN  /\ files' = [files EXCEPT ![k] =
                             FullFile(UpsertModify(LoadShard(files[k]), hourUtcMs, ping))]
             /\ call' = [n |-> call.n + 1, op |-> "writeHourlySnapshot",
                         serviceId |-> id, hourUtcMs |-> hourUtcMs, pingMs |-> ping]
    /\ UNCHANGED <<now, crashed, retries, data, pollerVars, schedVars, written, seedVars>>

\* pruneRetention(retentionDays, Date.now()) over the directory, run to its
\* end
NamedPruneCall ==
    /\ call.n < MaxCalls
    /\ \E retentionDays \in RetentionChoices :
         LET cutoffMs == CutoffMs(retentionDays, now)
         IN  /\ files' = [k \in (ConfigIds \X Months) |->
                             PruneNamed(files[k], ShardFileName(k[1], k[2]), cutoffMs)]
             /\ call' = [n |-> call.n + 1, op |-> "pruneRetention",
                         retentionDays |-> retentionDays, nowUtcMs |-> now,
                         cutoffMs |-> cutoffMs]
    /\ UNCHANGED <<now, crashed, retries, data, pollerVars, schedVars, written, seedVars>>

\* readSnapshots(serviceIds, fromUtcMs, toUtcMs) called directly; a shard
\* file that cannot be read or parsed is skipped by the catch in the loop
ReadSnapshotsCall ==
    /\ \E ids \in {<<"s1">>, <<"s2", "s1">>} : \E fromUtcMs \in {0, 9} :
       \E toUtcMs \in {9, 17} :
         call' = [n |-> call.n, op |-> "readSnapshots", ids |-> ids,
                  fromUtcMs |-> fromUtcMs, toUtcMs |-> toUtcMs,
                  result |-> readSnapshots(files, ids, fromUtcMs, toUtcMs, Null)]
    /\ UNCHANGED <<now, crashed, retries, data, pollerVars, schedVars, storeVars, seedVars>>

\* ------------------------------------------------------------------
\* routes.js, GET /snapshots
\* ------------------------------------------------------------------
\* maxHours = 168 buckets per request (scaled)
maxBuckets == 8

\* service_id lists, from/to instants and limits a request may carry;
\* a limit of Null is a request without limit
IdLists == {<<"s1">>, <<"s2", "s1">>, <<"s1", "s1">>, <<"zz">>}
QueryInstants == {0, 6, 9, 12, 17}
Limits == {Null} \cup (0..MaxLimit)

\* res.status(400).json({ error }) to the request for ids, from and to
BadRequest(error, ids, fromUtcMs, toUtcMs) ==
    [n |-> call.n, op |-> "snapshots", status |-> 400, error |-> error,
     ids |-> ids, fromUtcMs |-> fromUtcMs, toUtcMs |-> toUtcMs]

\* the window check without the "+ 1" of the inclusive bucket count
ExceedsWindowExclusive(fromUtcMs, toUtcMs) ==
    (toUtcMs - fromUtcMs) \div BUCKET_SIZE_MS > maxBuckets

\* requestedBuckets > maxBuckets
ExceedsWindow(fromUtcMs, toUtcMs) ==
    LET requestedBuckets == (toUtcMs - fromUtcMs) \div BUCKET_SIZE_MS + 1
    IN  requestedBuckets > maxBuckets

\* the datapoint synthesized from the live aggregate; last_check_ms is set
\* only when the aggregate has a truthy one
Datapoint(currentBucket, currentHourData, pingMs) ==
    IF /\ currentHourData # NoData
       /\ currentHourData.last_check_ms # Null
       /\ currentHourData.last_check_ms # 0
    THEN [hour_utc_ms |-> currentBucket, ping_ms |-> pingMs,
          last_check_ms |-> currentHourData.last_check_ms]
    ELSE [hour_utc_ms |-> currentBucket, ping_ms |-> pingMs]

\* the merge that pushes the datapoint without looking for the bucket
MergeOneAlways(snaps, currentBucket, datapoint, fromUtcMs, toUtcMs) ==
    IF currentBucket >= fromUtcMs /\ currentBucket <= toUtcMs
    THEN Append(snaps, datapoint)
    ELSE snaps

\* one pass of "for (const id of ids)": the datapoint is pushed when the
\* current bucket is in range and not among the entries already there
MergeOne(snaps, currentBucket, datapoint, fromUtcMs, toUtcMs) ==
    LET hasCurrentBucket ==
            \E j \in 1..Len(snaps) : snaps[j].hour_utc_ms = currentBucket
    IN  IF currentBucket >= fromUtcMs /\ currentBucket <= toUtcMs /\ ~hasCurrentBucket
        THEN Append(snaps, datapoint)
        ELSE snaps

\* the loop "for (const id of ids)" from position i on
RECURSIVE MergeLive(_, _, _, _, _, _, _)
MergeLive(snapshotsData, ids, i, currentBucket, peeked, fromUtcMs, toUtcMs) ==
    IF i > Len(ids) THEN snapshotsData
    ELSE LET id == ids[i]
             datapoint == Datapoint(currentBucket, peeked[id],
                                    calculatePingMs(peeked[id]))
         IN  MergeLive([snapshotsData EXCEPT ![id] =
                           MergeOne(@, currentBucket, datapoint, fromUtcMs, toUtcMs)],
                       ids, i + 1, currentBucket, peeked, fromUtcMs, toUtcMs)

\* the handler of GET /snapshots?service_id=ids&from_utc_ms=..&to_utc_ms=..
\* &limit=.. on an application with the given locals; ids of <<>> is a
\* request without service_id, Null a parameter that is not given; without
\* locals.accumulator the first accumulator.getCurrentHourData throws
\* after readSnapshots returned, and the catch answers
getSnapshots(locals, ids, fromUtcMs, toUtcMs, limit) ==
    LET idSet == {ids[i] : i \in 1..Len(ids)}
        effectiveLimit == IF limit # Null THEN Min(limit, maxBuckets)
                          ELSE maxBuckets
        snapshotsData == readSnapshots(files, ids, fromUtcMs, toUtcMs,
                                       effectiveLimit)
        currentBucket == hourBucketUtcMs(now)
        peeked == [id \in idSet |-> getCurrentHourData(data, id, currentBucket)]
        merged == MergeLive(snapshotsData, ids, 1, currentBucket, peeked,
                            fromUtcMs, toUtcMs)
    IN  IF ids = <<>>
        THEN call' = BadRequest("service_id is required", ids, fromUtcMs, toUtcMs)
             /\ data' = data
        ELSE IF fromUtcMs = Null \/ toUtcMs = Null
        THEN call' = BadRequest("from_utc_ms and to_utc_ms are required",
                                ids, fromUtcMs, toUtcMs)
             /\ data' = data
        ELSE IF fromUtcMs > toUtcMs
        THEN call' = BadRequest("from_utc_ms must be less than or equal to to_utc_ms",
                                ids, fromUtcMs, toUtcMs)
             /\ data' = data
        ELSE IF limit # Null /\ limit <= 0
        THEN call' = BadRequest("limit must be a positive integer",
                                ids, fromUtcMs, toUtcMs)
             /\ data' = data
        ELSE IF idSet \ ServiceIds # {}
        THEN call' = BadRequest("Invalid service_id(s)", ids, fromUtcMs, toUtcMs)
             /\ data' = data
        ELSE IF ExceedsWindow(fromUtcMs, toUtcMs)
        THEN call' = BadRequest("Requested time window exceeds maximum",
                                ids, fromUtcMs, toUtcMs)
             /\ data' = data
        ELSE IF "accumulator" \notin locals
        THEN call' = [n |-> call.n, op |-> "snapshots", status |-> 500,
                      error |-> "Internal server error",
                      ids |-> ids, fromUtcMs |-> fromUtcMs, toUtcMs |-> toUtcMs]
             /\ data' = data
        ELSE /\ data' = AfterLiveReads(data, idSet, currentBucket, peeked)
             /\ call' = [n |-> call.n, op |-> "snapshots", status |-> 200,
                         ids |-> ids, fromUtcMs |-> fromUtcMs,
                         toUtcMs |-> toUtcMs, limit |-> effectiveLimit,
                         finalized |-> snapshotsData,
                         currentBucket |-> currentBucket, peeked |-> peeked,
                         form |-> IF Len(ids) = 1 THEN "single" ELSE "multi",
                         response |->
                             [i \in 1..Len(ids) |->
                                 [service_id |-> ids[i],
                                  snapshots |-> SortSnaps(merged[ids[i]])]]]

\* GET /snapshots of the router on an application that carries the
\* accumulator
SnapshotsRequest ==
    /\ ~ReadPending
    /\ \E ids \in IdLists : \E fromUtcMs \in QueryInstants :
       \E toUtcMs \in QueryInstants : \E limit \in Limits :
         getSnapshots(RouterLocals, ids, fromUtcMs, toUtcMs, limit)
    /\ UNCHANGED <<now, crashed, retries, pollerVars, schedVars, storeVars, seedVars>>

\* requests sent to the server: service_id lists and from/to instants
ServerIdLists == {<<>>, <<"s1">>, <<"zz">>}
ServerInstants == {Null, 0, 9, 17}

\* GET /snapshots of the server startServer builds
ServerSnapshotsRequest ==
    /\ ~ReadPending
    /\ \E ids \in ServerIdLists : \E fromUtcMs \in ServerInstants :
       \E toUtcMs \in ServerInstants :
         getSnapshots(appLocals, ids, fromUtcMs, toUtcMs, Null)
    /\ UNCHANGED <<now, crashed, retries, pollerVars, schedVars, storeVars, seedVars>>

\* ------------------------------------------------------------------
\* Specifications
\* ------------------------------------------------------------------
RetryConfigs == {("s1" :> 4) @@ ("s2" :> 0), ("s1" :> 2) @@ ("s2" :> 1)}

DefaultRetries == ("s1" :> 0) @@ ("s2" :> 0)

StartTimes == {2 * BUCKET_SIZE_MS, 2 * BUCKET_SIZE_MS + 1}

LateStartTimes == {MaxTime - 2, MaxTime - 1}

\* samples the poller may have recorded in the open bucket since the
\* process started: <<ok, latency>> in arrival order
SampleRuns ==
    { <<>>,
      << <<FALSE, Null>> >>,
      << <<TRUE, 5000>>, <<TRUE, 100>> >>,
      << <<TRUE, 5000>>, <<FALSE, Null>>, <<TRUE, 100>>, <<TRUE, 100>> >> }

RECURSIVE RecordRun(_, _, _, _)
RecordRun(d, serviceId, timestampMs, run) ==
    IF run = <<>> THEN d
    ELSE RecordRun(recordSample(d, serviceId, timestampMs, Head(run)[1], Head(run)[2]),
                   serviceId, timestampMs, Tail(run))

RECURSIVE RecordRuns(_, _, _, _)
RecordRuns(d, timestampMs, runs, i) ==
    IF i > Len(Services) THEN d
    ELSE RecordRuns(RecordRun(d, Services[i], timestampMs, runs[Services[i]]),
                    timestampMs, runs, i + 1)

InitCommon(startTimes) ==
    /\ now \in startTimes
    /\ crashed = FALSE
    /\ polls = 0
    /\ seqs = EmptyFn
    /\ timeoutId = scheduleNext(now)
    /\ lastEmitted = Null
    /\ runningBoundary = Null
    /\ cbs = EmptyFn
    /\ emitted = <<>>
    /\ settled = EmptyFn
    /\ files = [k \in ShardKeys |-> NoFile]
    /\ written = EmptyFn
    /\ seed = SeedIdle
    /\ seedRuns = 0
    /\ call = NoCall

\* the server some time after start-up, within the bucket it started in
Init ==
    /\ InitCommon(StartTimes)
    /\ retries = DefaultRetries
    /\ \E runs \in [ServiceIds -> SampleRuns] :
         data = RecordRuns([s \in ServiceIds |-> EmptyFn],
                           hourBucketUtcMs(now), runs, 1)

\* the server right after start-up, before the first sample
InitFresh ==
    /\ InitCommon(StartTimes)
    /\ retries = DefaultRetries
    /\ data = [s \in ServiceIds |-> EmptyFn]

\* the server right after a late start-up
InitEmpty ==
    /\ InitCommon(LateStartTimes)
    /\ retries \in RetryConfigs
    /\ data = [s \in ServiceIds |-> EmptyFn]

\* scheduler, finalization and store of the server process
Next ==
    \/ Tick
    \/ TimerFire
    \/ CbRead
    \/ CbWriteBegin
    \/ CbWriteEnd
    \/ CbRename
    \/ CbIoError
    \/ CbPrune
    \/ Crash

Spec == Init /\ [][Next]_vars

\* the poller and the accumulator
NextPoller ==
    \/ Tick
    \/ performPoll
    \/ AttemptEnd
    \/ AttemptError
    \/ AttemptTimeout
    \/ runAttempt

SpecPoller == InitEmpty /\ [][NextPoller]_vars

\* the seed script alone: upserts executed one at a time
NextStore ==
    \/ Tick
    \/ SeedStart
    \/ SeedRead
    \/ SeedWriteBegin
    \/ SeedWriteEnd
    \/ SeedRename
    \/ SeedIoError

SpecStore == InitEmpty /\ [][NextStore]_vars

\* the seed script running while the server finalizes
NextSeed ==
    \/ Tick
    \/ TimerFire
    \/ CbRead
    \/ CbWriteBegin
    \/ CbWriteEnd
    \/ CbRename
    \/ CbPrune
    \/ SeedStart
    \/ SeedRead
    \/ SeedWriteBegin
    \/ SeedWriteEnd
    \/ SeedRename

SpecSeed == InitEmpty /\ [][NextSeed]_vars


\* finalization under a fair event loop that is not killed
NextLive ==
    \/ Tick
    \/ TimerFire
    \/ CbRead
    \/ CbWriteBegin
    \/ CbWriteEnd
    \/ CbRename
    \/ CbIoError
    \/ CbPrune

FairSpec ==
    /\ InitFresh
    /\ [][NextLive]_vars
    /\ WF_vars(Tick)
    /\ WF_vars(TimerFire)
    /\ WF_vars(CbRead)
    /\ WF_vars(CbWriteBegin)
    /\ WF_vars(CbWriteEnd)
    /\ WF_vars(CbRename)
    /\ WF_vars(CbPrune)

\* samples recorded in the open bucket before the calls looked at:
\* <<ok, latency>> in arrival order
LiveRuns ==
    { <<>>,
      << <<FALSE, Null>> >>,
      << <<TRUE, 5000>>, <<TRUE, 100>> >>,
      << <<TRUE, 201>>, <<TRUE, 100>> >>,
      << <<TRUE, 50>>, <<FALSE, Null>>, <<FALSE, Null>> >>,
      << <<TRUE, 5000>>, <<FALSE, Null>>, <<TRUE, 100>>, <<TRUE, 300>> >>,
      << <<TRUE, 100>>, <<FALSE, Null>>, <<TRUE, 100>>, <<FALSE, Null>>,
         <<FALSE, Null>>, <<TRUE, 100>>, <<FALSE, Null>>, <<TRUE, 100>>,
         <<TRUE, 100>>, <<FALSE, Null>> >> }

\* samples left in the previous bucket
OldRuns == { <<>>, << <<TRUE, 300>>, <<TRUE, 100>> >> }

\* the accumulator some time after start-up: samples in the open bucket and
\* in the one before it
InitAcc ==
    /\ InitCommon(StartTimes)
    /\ retries = DefaultRetries
    /\ \E old \in OldRuns : \E runs \in [ServiceIds -> LiveRuns] :
         data = RecordRuns(RecordRuns([s \in ServiceIds |-> EmptyFn],
                                      hourBucketUtcMs(now) - 1,
                                      [s \in ServiceIds |-> old], 1),
                           now, runs, 1)

\* the accumulator under the calls of poller, finalization and live reads
NextAcc ==
    \/ RecordSampleCall
    \/ DrainCall
    \/ HealthRequest

SpecAcc == InitAcc /\ [][NextAcc]_vars

\* bucket starts of the Snapshots a store may hold for one service
StoreShapes ==
    { {}, {10}, {6, 8}, {10, 16}, {2, 4, 6, 8, 10, 12}, {0, 10, 12, 14, 16} }

SmallStoreShapes == { {}, {8, 12} }

\* the ping stored for bucket b in the drawn stores
PingAt(b) == 100 + b

\* the Snapshots of the bucket starts in S, ascending
RECURSIVE SnapsOf(_)
SnapsOf(S) ==
    IF S = {} THEN <<>>
    ELSE LET b == CHOOSE x \in S : \A y \in S : x <= y
         IN  <<[hour_utc_ms |-> b, ping_ms |-> PingAt(b)]>> \o SnapsOf(S \ {b})

\* the shard of month m of a store holding the bucket starts in S
ShardOf(S, m) ==
    LET inMonth == {b \in S : monthKeyFromUtcMs(b) = m}
    IN  IF inMonth = {} THEN NoFile ELSE FullFile(SnapsOf(inMonth))

\* samples of the first service in the open bucket
QueryRuns ==
    { <<>>,
      << <<TRUE, 5000>>, <<TRUE, 100>> >>,
      << <<TRUE, 50>>, <<FALSE, Null>>, <<FALSE, Null>> >>,
      << <<TRUE, 5000>>, <<FALSE, Null>>, <<TRUE, 100>>, <<TRUE, 300>> >> }

QueryNows == {13, 16}

\* the server with a store written by earlier finalizations and seed runs
\* (no bucket later than the open one) and samples in the open bucket
InitQuery ==
    /\ now \in QueryNows
    /\ crashed = FALSE
    /\ retries = DefaultRetries
    /\ polls = 0
    /\ seqs = EmptyFn
    /\ timeoutId = scheduleNext(now)
    /\ lastEmitted = Null
    /\ runningBoundary = Null
    /\ cbs = EmptyFn
    /\ emitted = <<>>
    /\ settled = EmptyFn
    /\ written = EmptyFn
    /\ seed = SeedIdle
    /\ seedRuns = 0
    /\ call = NoCall
    /\ \E run \in QueryRuns :
         data = RecordRuns([s \in ServiceIds |-> EmptyFn], now,
                           ("s1" :> run) @@ ("s2" :> <<>>), 1)
    /\ \E S1 \in StoreShapes : \E S2 \in SmallStoreShapes :
         files = [k \in ShardKeys |->
                     ShardOf({b \in (IF k[1] = "s1" THEN S1 ELSE S2) :
                                 b <= hourBucketUtcMs(now)}, k[2])]

\* the read API and retention pruning over a store
NextQuery ==
    \/ SnapshotsRequest
    \/ HealthRequest
    \/ LatestCall
    \/ Respond
    \/ PruneCall

SpecQuery == InitQuery /\ [][NextQuery]_vars

\* samples of the first service in the open bucket of the started server
ServerRuns ==
    { <<>>,
      << <<TRUE, 100>>, <<TRUE, 5000>>, <<FALSE, Null>> >> }

\* the server of main some time after start-up: samples in the open bucket
InitServer ==
    /\ InitCommon(StartTimes)
    /\ retries = DefaultRetries
    /\ \E run \in ServerRuns :
         data = RecordRuns([s \in ServiceIds |-> EmptyFn], now,
                           ("s1" :> run) @@ ("s2" :> <<>>), 1)

\* scheduler, finalization, store and HTTP API of the server process
NextServer ==
    \/ Tick
    \/ TimerFire
    \/ CbRead
    \/ CbWriteBegin
    \/ CbWriteEnd
    \/ CbRename
    \/ CbIoError
    \/ CbPrune
    \/ ServerHealthRequest
    \/ ServerSnapshotsRequest
    \/ Respond

SpecServer == InitServer /\ [][NextServer]_vars

\* a store in which shard files of the first service may hold bytes that
\* JSON.parse rejects (the months in bad)
InitShard ==
    /\ now \in QueryNows
    /\ crashed = FALSE
    /\ retries = DefaultRetries
    /\ polls = 0
    /\ seqs = EmptyFn
    /\ timeoutId = scheduleNext(now)
    /\ lastEmitted = Null
    /\ runningBoundary = Null
    /\ cbs = EmptyFn
    /\ emitted = <<>>
    /\ settled = EmptyFn
    /\ written = EmptyFn
    /\ seed = SeedIdle
    /\ seedRuns = 0
    /\ call = NoCall
    /\ data = [s \in ServiceIds |-> EmptyFn]
    /\ \E S1 \in SmallStoreShapes : \E bad \in SUBSET (Months \ {1}) :
         files = [k \in ShardKeys |->
                     LET stored == {b \in (IF k[1] = "s1" THEN S1 ELSE {8, 12}) :
                                       b <= hourBucketUtcMs(now)}
                     IN  IF k[1] = "s1" /\ k[2] \in bad
                         THEN PartialFile(SnapsOf({b \in stored :
                                                     monthKeyFromUtcMs(b) = k[2]}))
                         ELSE ShardOf(stored, k[2])]

\* upserts of the seed script and direct reads over such a store
NextShard ==
    \/ SeedStart
    \/ SeedRead
    \/ SeedWriteBegin
    \/ SeedWriteEnd
    \/ SeedRename
    \/ SeedIoError
    \/ ReadSnapshotsCall

SpecShard == InitShard /\ [][NextShard]_vars

\* the pipeline of main: poller, accumulator, scheduler and finalization
NextPipeline ==
    \/ Tick
    \/ performPoll
    \/ AttemptEnd
    \/ AttemptError
    \/ AttemptTimeout
    \/ runAttempt
    \/ TimerFire
    \/ CbRead
    \/ CbWriteBegin
    \/ CbWriteEnd
    \/ CbRename
    \/ CbIoError
    \/ CbPrune

SpecPipeline == InitEmpty /\ [][NextPipeline]_vars

\* a data directory holding shards of the configured ids
InitNames ==
    /\ now \in QueryNows
    /\ crashed = FALSE
    /\ retries = DefaultRetries
    /\ polls = 0
    /\ seqs = EmptyFn
    /\ timeoutId = scheduleNext(now)
    /\ lastEmitted = Null
    /\ runningBoundary = Null
    /\ cbs = EmptyFn
    /\ emitted = <<>>
    /\ settled = EmptyFn
    /\ written = EmptyFn
    /\ seed = SeedIdle
    /\ seedRuns = 0
    /\ call = NoCall
    /\ data = [s \in ServiceIds |-> EmptyFn]
    /\ \E shapes \in [ConfigIds -> SmallStoreShapes] :
         files = [k \in (ConfigIds \X Months) |->
                     ShardOf({b \in shapes[k[1]] : b <= hourBucketUtcMs(now)}, k[2])]

\* upserts and retention pruning over the files of the configured ids
NextNames ==
    \/ NamedUpsertCall
    \/ NamedPruneCall

SpecNames == InitNames /\ [][NextNames]_vars

\* the server at the first boundary after start-up: the timer has fired,
\* the callback of the first bucket, which got no sample, is about to
\* read its first shard
InitSkip ==
    /\ now = 3 * BUCKET_SIZE_MS
    /\ crashed = FALSE
    /\ retries = DefaultRetries
    /\ polls = 0
    /\ seqs = EmptyFn
    /\ timeoutId = TimerWhileRunning(now)
    /\ lastEmitted = Null
    /\ runningBoundary = 2 * BUCKET_SIZE_MS
    /\ cbs = (2 * BUCKET_SIZE_MS :>
                 [pc |-> "read", idx |-> 1, acc |-> EmptyFn,
                  existingData |-> <<>>, tmp |-> NoFile, cutoffMs |-> Null])
    /\ emitted = <<2 * BUCKET_SIZE_MS>>
    /\ settled = EmptyFn
    /\ files = [k \in ShardKeys |-> NoFile]
    /\ written = EmptyFn
    /\ seed = SeedIdle
    /\ seedRuns = 0
    /\ call = NoCall
    /\ data = [s \in ServiceIds |-> EmptyFn]

\* the pipeline with a poller whose requests end with a response
NextSkip ==
    \/ Tick
    \/ performPoll
    \/ AttemptEnd
    \/ TimerFire
    \/ CbRead
    \/ CbWriteBegin
    \/ CbWriteEnd
    \/ CbRename
    \/ CbIoError
    \/ CbPrune

SpecSkip == InitSkip /\ [][NextSkip]_vars

\* ------------------------------------------------------------------
\* Properties
\* ------------------------------------------------------------------
BucketStarts == {t \in 0..(MaxTime + BUCKET_SIZE_MS) : t % BUCKET_SIZE_MS = 0}

\* the entries of the shard of (serviceId, hourUtcMs) for that bucket
EntriesFor(fs, serviceId, hourUtcMs) ==
    LET snaps == LoadShard(fs[ShardKey(serviceId, hourUtcMs)])
    IN  {i \in 1..Len(snaps) : snaps[i].hour_utc_ms = hourUtcMs}

\* the store holds exactly one Snapshot (hourUtcMs, pingMs) for serviceId
HoldsExactly(fs, serviceId, hourUtcMs, pingMs) ==
    LET snaps == LoadShard(fs[ShardKey(serviceId, hourUtcMs)])
    IN  /\ Cardinality(EntriesFor(fs, serviceId, hourUtcMs)) = 1
        /\ \A i \in EntriesFor(fs, serviceId, hourUtcMs) : snaps[i].ping_ms = pingMs

\* C1: onHour is invoked at most once for any bucket start
C1_AtMostOncePerBucket ==
    \A i, j \in 1..Len(emitted) : i # j => emitted[i] # emitted[j]

\* a timer is armed for the boundary whose bucket was already finalized
C1_Witness ==
    /\ Len(emitted) >= 1
    /\ timeoutId # Null
    /\ timeoutId - BUCKET_SIZE_MS = lastEmitted
    /\ lastEmitted = emitted[Len(emitted)]

\* C2: at most one callback is in progress, no timer is armed while one
\* is, and every bucket invoked before the latest one has settled
C2_OneFinalizationAtATime ==
    /\ Cardinality(DOMAIN cbs) <= 1
    /\ (DOMAIN cbs # {} => timeoutId = Null)
    /\ \A i \in 1..(Len(emitted) - 1) : emitted[i] \in DOMAIN settled

\* a callback still runs after the boundary that follows its own has passed
C2_Witness ==
    \E b \in DOMAIN cbs : now >= b + 2 * BUCKET_SIZE_MS /\ timeoutId = Null

\* C3: after a callback failed, with a bucket width of time left, onHour is
\* eventually invoked for a later bucket
C3_FailureDoesNotStopScheduler ==
    \A b \in BucketStarts :
        (b \in DOMAIN settled /\ ~settled[b] /\ now + BUCKET_SIZE_MS <= MaxTime)
            ~> (\E i \in 1..Len(emitted) : emitted[i] > b)

\* a callback failed and onHour was invoked for a later bucket
C3_Witness ==
    \E b \in DOMAIN settled :
        ~settled[b] /\ \E i \in 1..Len(emitted) : emitted[i] > b

C5_AtomicReplace ==
    [][/\ \A k \in ShardKeys : ~files'[k].partial
       /\ (crashed' # crashed => files' = files)
       /\ \A k \in ShardKeys :
            files'[k] # files[k] =>
              \E b \in DOMAIN cbs :
                 \/ cbs[b].pc = "prune"
                 \/ /\ cbs[b].pc = "rename"
                    /\ k = ShardKey(CbService(b), b)
                    /\ files'[k] = FullFile(UpsertModify(cbs[b].existingData, b,
                                              PingOf(cbs[b].acc, CbService(b))))]_vars

\* the process was killed between the temporary-file write and the rename
\* and the shard still holds its previous, different content
C5_Witness ==
    /\ crashed
    /\ \E b \in DOMAIN cbs :
        /\ cbs[b].pc = "rename"
        /\ cbs[b].tmp.exists /\ ~cbs[b].tmp.partial
        /\ files[ShardKey(CbService(b), b)].exists
        /\ ~files[ShardKey(CbService(b), b)].partial
        /\ files[ShardKey(CbService(b), b)].data # cbs[b].tmp.data

\* C6: every completed upsert of a bucket still inside the retention
\* window is in its shard (no lost update)
C6_NoLostUpdate ==
    \A w \in DOMAIN written :
        w[2] >= CutoffMs(RETENTION_DAYS, now) =>
            Cardinality(EntriesFor(files, w[1], w[2])) = 1

\* representative ping of a drained aggregate: 0 without a success, else
\* the median of the successful latencies, an average being rounded to the
\* nearest integer
C7_RepresentativePing(accumulatorData, serviceId) ==
    IF serviceId \notin DOMAIN accumulatorData THEN 0
    ELSE LET sorted == SortNum(accumulatorData[serviceId].success_latencies)
             n == Len(sorted)
         IN  IF n = 0 THEN 0
             ELSE IF n % 2 = 1 THEN sorted[(n + 1) \div 2]
             ELSE (sorted[n \div 2] + sorted[n \div 2 + 1] + 1) \div 2

\* the callback for bucket b resolves in this step
C7_Completes(b) ==
    b \in DOMAIN cbs /\ cbs[b].pc = "prune" /\ b \notin DOMAIN cbs'

\* C7 as claimed: when finalization of b completes without error the store
\* holds exactly one Snapshot for b for every endpoint, with the
\* representative ping; pruning starts only after all upserts
C7_Claim ==
    [][\A b \in BucketStarts : C7_Completes(b) =>
          \A s \in ServiceIds :
             /\ HoldsExactly(files, s, b, C7_RepresentativePing(cbs[b].acc, s))
             /\ HoldsExactly(files', s, b, C7_RepresentativePing(cbs[b].acc, s))]_vars

\* C7 amended: the Snapshots are all there when pruning starts, and still
\* there at completion unless b is older than the retention cutoff
C7_SnapshotsUnlessPruned ==
    [][\A b \in BucketStarts : C7_Completes(b) =>
          \A s \in ServiceIds :
             /\ HoldsExactly(files, s, b, C7_RepresentativePing(cbs[b].acc, s))
             /\ (b >= cbs[b].cutoffMs =>
                   HoldsExactly(files', s, b, C7_RepresentativePing(cbs[b].acc, s)))]_vars

\* a finalization completed and left an averaged median for one endpoint
\* and 0 for an endpoint without a sample
C7_Witness ==
    \E b \in DOMAIN settled :
        /\ settled[b]
        /\ HoldsExactly(files, "s1", b, 2550)
        /\ HoldsExactly(files, "s2", b, 0)

\* C8 as claimed: every attempt that left flight recorded exactly one
\* sample, and a sequence that is over without a success, with N <= 3
\* configured retries, recorded N + 1 samples
C8_Claim ==
    \A q \in DOMAIN seqs :
        /\ seqs[q].recorded = seqs[q].attempt - seqs[q].inflight
        /\ (SeqOver(seqs[q]) /\ "ok" \notin seqs[q].kinds /\ retries[q[2]] <= 3)
              => seqs[q].recorded = retries[q[2]] + 1

\* C9 as claimed: a sequence that is over without a success made exactly
\* 1 + min(retries, 3) attempts; a success ends the sequence
C9_Claim ==
    \A q \in DOMAIN seqs :
        /\ (SeqOver(seqs[q]) /\ "ok" \notin seqs[q].kinds)
              => seqs[q].attempt = 1 + Min(retries[q[2]], RETRY_CAP)
        /\ "ok" \in seqs[q].kinds => SeqOver(seqs[q])

C11_Drains(b) ==
    /\ call'.n = call.n + 1
    /\ call'.op = "getAndResetForHour"
    /\ call'.hourUtcMs = b

\* C11: draining bucket b returns the counters and latencies of every
\* service that has an aggregate for b and of no other, removes exactly
\* those aggregates, leaves every other bucket as it was, and a second
\* drain of b right after the first returns nothing
C11_DrainBucket ==
    [][\A b \in BucketStarts : C11_Drains(b) =>
          /\ DOMAIN call'.result = {s \in ServiceIds : b \in DOMAIN data[s]}
          /\ \A s \in DOMAIN call'.result :
                /\ call'.result[s].samples_total = data[s][b].samples_total
                /\ call'.result[s].samples_ok = data[s][b].samples_ok
                /\ call'.result[s].success_latencies = data[s][b].success_latencies
          /\ \A s \in ServiceIds :
                /\ DOMAIN data'[s] = (DOMAIN data[s]) \ {b}
                /\ \A o \in DOMAIN data'[s] : data'[s][o] = data[s][o]
          /\ (call.op = "getAndResetForHour" /\ call.hourUtcMs = b)
                => DOMAIN call'.result = {}]_vars

\* a drain returned the aggregates of both services and another bucket of
\* a drained service is still in the accumulator
C11_Witness ==
    /\ call.op = "getAndResetForHour"
    /\ DOMAIN call.result = ServiceIds
    /\ \E s \in ServiceIds : \E o \in DOMAIN data[s] :
          o # call.hourUtcMs /\ data[s][o].samples_total > 0

\* C12: a live read of the open bucket returns, per service, the fields of
\* the stored aggregate, or none when there is no aggregate, and the
\* accumulator is the same after the read and after the caller sorted the
\* latencies it was given
C12_PeekLeavesAccumulator ==
    [][call'.op = "health" =>
          /\ data' = data
          /\ \A s \in ServiceIds :
                IF call'.bucket \in DOMAIN data[s]
                THEN LET agg == data[s][call'.bucket]
                         got == call'.peeked[s]
                     IN  /\ got # NoData
                         /\ got.samples_total = agg.samples_total
                         /\ got.samples_ok = agg.samples_ok
                         /\ got.success_latencies = agg.success_latencies
                         /\ got.recent_results = agg.recent_results
                         /\ got.last_check_ms = agg.last_check_ms
                ELSE call'.peeked[s] = NoData]_vars

\* a live read sorted latencies that are stored out of order, and they are
\* still stored out of order
C12_Witness ==
    /\ call.op = "health"
    /\ \E s \in ServiceIds :
          /\ SortsLatencies(call.peeked[s])
          /\ call.bucket \in DOMAIN data[s]
          /\ data[s][call.bucket].success_latencies
                # SortNum(data[s][call.bucket].success_latencies)

\* start of the bucket an instant lies in
C13_BucketStart(instant) ==
    CHOOSE b \in BucketStarts : b <= instant /\ instant < b + BUCKET_SIZE_MS

\* the last n elements of a sequence
C13_LastN(seq, n) ==
    IF Len(seq) <= n THEN seq ELSE SubSeq(seq, Len(seq) - n + 1, Len(seq))

\* C13: recordSample(endpoint, instant, success, latency) creates the
\* aggregate of (endpoint, bucketStart(instant)) if absent and changes no
\* other aggregate; total +1; on success, success count +1 and latency
\* appended; the flag is appended to the ring, of which the 10 most recent
\* flags are kept in arrival order; last-check instant is the instant
C13_RecordSample ==
    [][(call'.op = "recordSample" /\ call'.n = call.n + 1) =>
          LET s == call'.serviceId
              b == C13_BucketStart(call'.timestampMs)
              old == IF b \in DOMAIN data[s] THEN data[s][b]
                     ELSE [samples_total |-> 0, samples_ok |-> 0,
                           success_latencies |-> <<>>, recent_results |-> <<>>]
              new == data'[s][b]
          IN  /\ \A s2 \in ServiceIds :
                    /\ DOMAIN data'[s2] =
                          (DOMAIN data[s2]) \cup (IF s2 = s THEN {b} ELSE {})
                    /\ \A b2 \in DOMAIN data[s2] :
                          (s2 # s \/ b2 # b) => data'[s2][b2] = data[s2][b2]
              /\ new.samples_total = old.samples_total + 1
              /\ new.samples_ok = old.samples_ok + (IF call'.ok THEN 1 ELSE 0)
              /\ new.success_latencies =
                    (IF call'.ok THEN Append(old.success_latencies, call'.latencyMs)
                     ELSE old.success_latencies)
              /\ new.recent_results =
                    C13_LastN(Append(old.recent_results, call'.ok), 10)
              /\ new.last_check_ms = call'.timestampMs]_vars

\* a sample was recorded into an aggregate whose ring was full: 11 samples,
\* 10 flags kept
C13_Witness ==
    /\ call.op = "recordSample"
    /\ LET agg == data[call.serviceId][hourBucketUtcMs(call.timestampMs)]
       IN  agg.samples_total = 11 /\ Len(agg.recent_results) = 10

\* the aggregates a representative ping was computed from in the last call,
\* with the ping: all drained ones, and the peeked ones that the check of
\* the last two outcomes let through to the median
C14_Computed ==
    IF call.op = "getAndResetForHour"
    THEN {<<call.result[s].success_latencies, call.pings[s]>> : s \in DOMAIN call.result}
         \cup {<< <<>>, call.pings[s]>> : s \in ServiceIds \ DOMAIN call.result}
    ELSE IF call.op = "health"
    THEN {<<call.peeked[s].success_latencies, call.pings[s]>> :
             s \in {x \in ServiceIds : call.peeked[x] # NoData
                                       /\ ~LastTwoFailed(call.peeked[x].recent_results)}}
         \cup {<< <<>>, call.pings[s]>> :
                  s \in {x \in ServiceIds : call.peeked[x] = NoData}}
    ELSE {}

\* C14 as claimed: the ping is 0 without a successful latency, the middle
\* value of the sorted latencies for an odd count and the average of the
\* two middle values for an even count, in finalization and in live reads
C14_Claim ==
    \A c \in C14_Computed :
        LET sorted == SortNum(c[1])
            n == Len(sorted)
        IN  IF n = 0 THEN c[2] = 0
            ELSE IF n % 2 = 1 THEN c[2] = sorted[(n + 1) \div 2]
            ELSE 2 * c[2] = sorted[n \div 2] + sorted[n \div 2 + 1]

\* C14 amended: for an even count the ping is the average of the two middle
\* values rounded to the nearest integer, a half rounding up
C14_RoundedMedian ==
    \A c \in C14_Computed :
        LET sorted == SortNum(c[1])
            n == Len(sorted)
        IN  IF n = 0 THEN c[2] = 0
            ELSE IF n % 2 = 1 THEN c[2] = sorted[(n + 1) \div 2]
            ELSE 2 * c[2] - (sorted[n \div 2] + sorted[n \div 2 + 1]) \in {0, 1}

\* finalization computed 151 from the latencies 201 and 100
C14_Witness ==
    /\ call.op = "getAndResetForHour"
    /\ \E s \in DOMAIN call.result :
          call.result[s].success_latencies = <<201, 100>> /\ call.pings[s] = 151

\* the entries of a sequence, as a set
C15_Range(seq) == {seq[i] : i \in 1..Len(seq)}

\* the stored Snapshots of service s with bucket start in [from, to], taken
\* from the shards whose month intersects [from, to]
C15_Stored(s, fromUtcMs, toUtcMs) ==
    UNION {{e \in C15_Range(LoadShard(files[<<s, m>>])) :
               fromUtcMs <= e.hour_utc_ms /\ e.hour_utc_ms <= toUtcMs} :
           m \in {x \in Months : MonthStartMs[x] <= toUtcMs
                                 /\ fromUtcMs < MonthStartMs[x + 1]}}

\* C15: readSnapshots returns, per service, stored Snapshots of the range
\* only, in ascending order, as many as there are but at most limit, and
\* every stored Snapshot of the range left out is later than all returned
C15_ReadSnapshots ==
    (call.op = "snapshots" /\ call.status = 200) =>
        \A s \in DOMAIN call.finalized :
            LET r == call.finalized[s]
                stored == C15_Stored(s, call.fromUtcMs, call.toUtcMs)
            IN  /\ C15_Range(r) \subseteq stored
                /\ \A i \in 1..(Len(r) - 1) : r[i].hour_utc_ms < r[i + 1].hour_utc_ms
                /\ Len(r) = Min(Cardinality(stored), call.limit)
                /\ \A e \in stored \ C15_Range(r) :
                      \A i \in 1..Len(r) : r[i].hour_utc_ms < e.hour_utc_ms

\* a read over two months was cut to the limit
C15_Witness ==
    /\ call.op = "snapshots"
    /\ call.status = 200
    /\ \E s \in DOMAIN call.finalized :
          LET r == call.finalized[s]
          IN  /\ Len(r) = call.limit
              /\ Cardinality(C15_Stored(s, call.fromUtcMs, call.toUtcMs)) > call.limit
              /\ \E i, j \in 1..Len(r) :
                    monthKeyFromUtcMs(r[i].hour_utc_ms)
                       # monthKeyFromUtcMs(r[j].hour_utc_ms)

\* the stored Snapshots of service s in the shard of month m with bucket
\* start at or before t
C16_UpTo(s, m, t) ==
    {e \in C15_Range(LoadShard(files[<<s, m>>])) : e.hour_utc_ms <= t}

\* C16 as claimed: getLatestSnapshot(endpoint, t) returns the Snapshot with
\* the greatest bucket start at or before t of the shard of the month
\* containing t or, if that shard has none, of the shard of the preceding
\* month, and none only when neither has one
C16_Claim ==
    call.op = "getLatestSnapshot" =>
        LET t == call.beforeUtcMs
            m == CHOOSE x \in Months : MonthStartMs[x] <= t /\ t < MonthStartMs[x + 1]
            cands == IF C16_UpTo(call.serviceId, m, t) # {}
                     THEN C16_UpTo(call.serviceId, m, t)
                     ELSE C16_UpTo(call.serviceId, m - 1, t)
        IN  IF cands = {} THEN call.result = NoSnapshot
            ELSE /\ call.result \in cands
                 /\ \A e \in cands : e.hour_utc_ms <= call.result.hour_utc_ms

\* the step is a call of pruneRetention
C17_Prunes == call'.op = "pruneRetention" /\ call'.n = call.n + 1

\* C17: with cutoff = now - retentionDays, a shard whose month ends before
\* the cutoff is deleted, a shard whose month starts at or after the cutoff
\* is untouched, any other shard keeps exactly its entries at or after the
\* cutoff, in order, and is deleted when none remain; afterwards no stored
\* Snapshot is older than the cutoff
C17_PruneRetention ==
    [][C17_Prunes =>
          LET cutoff == call'.nowUtcMs - call'.retentionDays * DAY_MS
          IN  \A k \in ShardKeys :
                 LET m == k[2]
                     kept == SelectSeq(LoadShard(files[k]),
                                       LAMBDA e : e.hour_utc_ms >= cutoff)
                 IN  /\ ~files[k].exists => ~files'[k].exists
                     /\ (files[k].exists /\ MonthStartMs[m + 1] <= cutoff)
                           => ~files'[k].exists
                     /\ (files[k].exists /\ MonthStartMs[m] >= cutoff)
                           => files'[k] = files[k] /\ call'.ops[k] = "none"
                     /\ (files[k].exists /\ MonthStartMs[m] < cutoff
                            /\ cutoff < MonthStartMs[m + 1])
                           => IF kept = <<>> THEN ~files'[k].exists
                              ELSE /\ files'[k].exists
                                   /\ ~files'[k].partial
                                   /\ files'[k].data = kept
                     /\ \A e \in C15_Range(LoadShard(files'[k])) :
                           e.hour_utc_ms >= cutoff]_vars

\* one pruning deleted a whole shard, cut another one down and left a third
\* one as it was
C17_Witness ==
    /\ call.op = "pruneRetention"
    /\ \E k \in ShardKeys : call.ops[k] = "rewrite"
    /\ \E k \in ShardKeys : call.ops[k] = "unlink"
    /\ \E k \in ShardKeys : call.ops[k] = "none" /\ files[k].exists

\* C18: pruneRetention called again with the same retentionDays and now,
\* with no write in between, deletes and rewrites no file and leaves the
\* content of every shard unchanged
C18_PruneIdempotent ==
    [][(C17_Prunes /\ call'.repeats) =>
          /\ files' = files
          /\ \A k \in ShardKeys : call'.ops[k] = "none"]_vars

\* the second of two equal prunings, the first of which deleted one shard
\* and rewrote another
C18_Witness ==
    /\ call.op = "pruneRetention"
    /\ call.repeats
    /\ \E k \in ShardKeys : call.lastOps[k] = "rewrite"
    /\ \E k \in ShardKeys : call.lastOps[k] = "unlink"

\* start of the open bucket
C19_CurrentBucket ==
    CHOOSE b \in 0..now : b % BUCKET_SIZE_MS = 0 /\ now < b + BUCKET_SIZE_MS

\* live ping of service s: 0 without an aggregate in the open bucket or
\* when its two most recent outcomes were failures, else the
\* representative ping
C20_LivePing(s) ==
    LET b == C19_CurrentBucket
    IN  IF b \notin DOMAIN data[s] THEN 0
        ELSE LET ring == data[s][b].recent_results
                 n == Len(ring)
             IN  IF n >= 2 /\ ~ring[n - 1] /\ ~ring[n] THEN 0
                 ELSE C7_RepresentativePing((s :> data[s][b]), s)

C20_FastDown ==
    /\ call.op = "health" =>
          \A s \in ServiceIds : call.pings[s] = C20_LivePing(s)
    /\ (call.op = "snapshots" /\ call.status = 200) =>
          \A i \in DOMAIN call.response :
             \A j \in 1..Len(call.response[i].snapshots) :
                LET e == call.response[i].snapshots[j]
                IN  e \notin C15_Range(call.finalized[call.response[i].service_id])
                       => e.ping_ms = C20_LivePing(call.response[i].service_id)

\* /health reports 0 for a service with an earlier success and two
\* failures last
C20_Witness ==
    /\ call.op = "health"
    /\ \E s \in ServiceIds :
          /\ call.peeked[s] # NoData
          /\ call.peeked[s].samples_ok > 0
          /\ LastTwoFailed(call.peeked[s].recent_results)
          /\ call.pings[s] = 0

\* C21: a step that answers GET /health or GET /snapshots leaves the
\* accumulator and every shard of the store as they were, whatever the
\* answer; the entry synthesized for the open bucket is in the response only
C21_ServingLeavesState ==
    [][(call' # call /\ call'.op \in {"health", "snapshots"}) =>
          /\ data' = data
          /\ files' = files
          /\ written' = written]_vars

\* a /snapshots response carries a live entry for the open bucket, the
\* store has no Snapshot for that bucket, and the latencies it was computed
\* from are still stored out of order
C21_Witness ==
    /\ call.op = "snapshots"
    /\ call.status = 200
    /\ \E i \in DOMAIN call.response :
          LET s == call.response[i].service_id
              snaps == call.response[i].snapshots
          IN  /\ \E j \in 1..Len(snaps) :
                    /\ snaps[j].hour_utc_ms = call.currentBucket
                    /\ snaps[j].ping_ms > 0
              /\ EntriesFor(files, s, call.currentBucket) = {}
              /\ data[s][call.currentBucket].success_latencies
                    # SortNum(data[s][call.currentBucket].success_latencies)

\* the request fails the validation of ids, from and to: a parameter is
\* missing, from is after to, an id is not configured, or the inclusive
\* bucket count of [from, to] is above the cap
C22_FailsValidation(ids, fromUtcMs, toUtcMs) ==
    \/ ids = <<>>
    \/ fromUtcMs = Null
    \/ toUtcMs = Null
    \/ fromUtcMs > toUtcMs
    \/ \E i \in 1..Len(ids) : ids[i] \notin ServiceIds
    \/ (toUtcMs - fromUtcMs) \div BUCKET_SIZE_MS + 1 > maxBuckets

\* C22: a /snapshots request that fails validation is answered with status
\* 400 and an error, without snapshot data, and the step changes neither
\* the accumulator nor the store
C22_InvalidRequest ==
    [][(/\ call' # call
        /\ call'.op = "snapshots"
        /\ C22_FailsValidation(call'.ids, call'.fromUtcMs, call'.toUtcMs)) =>
          /\ call'.status = 400
          /\ DOMAIN call' \cap {"response", "finalized", "peeked"} = {}
          /\ data' = data
          /\ files' = files
          /\ written' = written]_vars

\* a request for a configured service over one bucket more than the cap
\* was answered with 400 while the store holds Snapshots
C22_Witness ==
    /\ call.op = "snapshots"
    /\ call.status = 400
    /\ call.ids = <<"s1">>
    /\ call.fromUtcMs # Null
    /\ (call.toUtcMs - call.fromUtcMs) \div BUCKET_SIZE_MS + 1 = maxBuckets + 1
    /\ \E k \in ShardKeys : files[k] # NoFile

\* the condition under which a color applies to a ping and a threshold
C23_Applies(color, ping, threshold) ==
    CASE color = "red" -> ping = 0
      [] color = "green" -> 0 < ping /\ ping <= threshold
      [] color = "yellow" -> ping > threshold

\* C23: the color reported for a service is red when its ping is 0, green
\* when 0 < ping <= threshold and yellow when ping > threshold, and exactly
\* one of the three conditions holds
C23_ColorDerivation ==
    (call.op = "health" /\ call.status = 200) =>
        \A s \in ServiceIds :
            LET applying == {c \in {"red", "green", "yellow"} :
                                C23_Applies(c, call.pings[s], SlowThresholdOf[s])}
            IN  /\ Cardinality(applying) = 1
                /\ call.services[s].color \in applying

\* one answer reports a service whose ping equals its threshold as green,
\* and one above its threshold (2550 against 1000) as yellow
C23_Witness ==
    /\ call.op = "health"
    /\ call.status = 200
    /\ call.pings["s2"] = SlowThresholdOf["s2"]
    /\ call.services["s2"].color = "green"
    /\ call.pings["s1"] = 2550
    /\ call.services["s1"].color = "yellow"

\* C24: GET /health is answered with a report that gives, for every
\* configured service, the live ping of the open bucket and the status
\* "up" exactly when that ping is above 0 (a service without an aggregate
\* in the open bucket is down)
C24_HealthReportsLivePing ==
    [][(call' # call /\ call'.op = "health") =>
          /\ call'.status = 200
          /\ call'.bucket = C19_CurrentBucket
          /\ DOMAIN call'.services = ServiceIds
          /\ \A s \in ServiceIds :
                /\ call'.pings[s] = C20_LivePing(s)
                /\ call'.services[s].status = "up" <=> call'.pings[s] > 0
                /\ C19_CurrentBucket \notin DOMAIN data[s]
                      => call'.services[s].status = "down"]_vars

\* C25: for every instant t up to now (and the bucket before the epoch),
\* the bucket start of t is its own bucket start, is a multiple of the
\* width, and t lies in [start, start + width); the aggregates of the
\* accumulator are keyed by such starts
C25_BucketStartLaws ==
    /\ \A t \in (0 - BUCKET_SIZE_MS)..now :
          LET b == hourBucketUtcMs(t)
          IN  /\ hourBucketUtcMs(b) = b
              /\ b % BUCKET_SIZE_MS = 0
              /\ b <= t
              /\ t < b + BUCKET_SIZE_MS
    /\ \A s \in ServiceIds : \A b \in DOMAIN data[s] : hourBucketUtcMs(b) = b

\* the clock stands inside a bucket, past its start, and the accumulator
\* holds an aggregate under the start of that bucket
C25_Witness ==
    /\ now % BUCKET_SIZE_MS # 0
    /\ hourBucketUtcMs(now) < now
    /\ \E s \in ServiceIds : hourBucketUtcMs(now) \in DOMAIN data[s]

\* the callback for bucket b settles in this step
C26_Settles(b) == b \in DOMAIN cbs /\ b \notin DOMAIN cbs'

\* the first boundary at or after instant t
C26_BoundaryFrom(t) ==
    CHOOSE m \in 0..(t + BUCKET_SIZE_MS) :
        m % BUCKET_SIZE_MS = 0 /\ m >= t /\ m - BUCKET_SIZE_MS < t

\* buckets after b that were complete before the callback for b settled
\* (non-empty only when it settles more than one width past the boundary
\* b + width)
C26_CompletedDuringOverrun(b) ==
    {x \in BucketStarts : b < x /\ x + BUCKET_SIZE_MS < now}

\* C26: when the callback for b settles, the timer is armed for the first
\* boundary at or after the settle instant, whatever b was; the buckets
\* that completed during the overrun have not been passed to the callback
\* and lie before the bucket of that boundary; an armed timer never moves
\* back, and every invocation is for the bucket before the armed boundary
\* and for a later bucket than all earlier invocations: the skipped buckets
\* are never passed to the callback
C26_OverrunSkipsBuckets ==
    [][/\ \A b \in BucketStarts : C26_Settles(b) =>
             /\ timeoutId' = C26_BoundaryFrom(now)
             /\ \A x \in C26_CompletedDuringOverrun(b) :
                   /\ \A i \in 1..Len(emitted') : emitted'[i] # x
                   /\ x < timeoutId' - BUCKET_SIZE_MS
       /\ (timeoutId # Null /\ timeoutId' # Null) => timeoutId' >= timeoutId
       /\ Len(emitted') > Len(emitted) =>
             /\ emitted' = Append(emitted, timeoutId - BUCKET_SIZE_MS)
             /\ \A i \in 1..Len(emitted) :
                   emitted[i] < timeoutId - BUCKET_SIZE_MS]_vars

\* after an overrun the callback was invoked for a bucket two or more
\* widths after the one before: the buckets in between were skipped
C26_Witness ==
    \E i \in 1..(Len(emitted) - 1) :
        /\ emitted[i + 1] >= emitted[i] + 2 * BUCKET_SIZE_MS
        /\ emitted[i] \in DOMAIN settled

\* bucket T of service s1 holds the samples (ok, 100), (ok, 5000), (fail)
C27_Received(T) ==
    /\ T \in DOMAIN data["s1"]
    /\ data["s1"][T].samples_total = 3
    /\ data["s1"][T].samples_ok = 2
    /\ data["s1"][T].success_latencies = <<100, 5000>>
    /\ data["s1"][T].recent_results = <<TRUE, TRUE, FALSE>>

\* C27: the finalization invoked for a bucket T that received (ok, 100),
\* (ok, 5000), (fail) computes the ping 2550 for it; once it has completed,
\* the store holds Snapshot(T, 2550) and a /snapshots request for the
\* service with a valid range that covers T is answered with the entry
\* {hour_utc_ms: T, ping_ms: 2550}; against the threshold 1000 that ping is
\* yellow
C27_EndToEnd ==
    [][\A T \in BucketStarts :
          /\ (C27_Received(T) /\ T \notin DOMAIN cbs /\ T \in DOMAIN cbs')
                => PingOf(cbs'[T].acc, "s1") = 2550
          /\ (/\ T \in DOMAIN settled
              /\ settled[T]
              /\ <<"s1", T>> \in DOMAIN written
              /\ written[<<"s1", T>>] = <<2550>>
              /\ call' # call
              /\ call'.op = "snapshots"
              /\ call'.ids = <<"s1">>
              /\ ~C22_FailsValidation(call'.ids, call'.fromUtcMs, call'.toUtcMs)
              /\ call'.fromUtcMs <= T
              /\ T <= call'.toUtcMs)
                => /\ HoldsExactly(files, "s1", T, 2550)
                   /\ call'.status = 200
                   /\ \E j \in 1..Len(call'.response[1].snapshots) :
                         /\ call'.response[1].snapshots[j].hour_utc_ms = T
                         /\ call'.response[1].snapshots[j].ping_ms = 2550
                   /\ SlowThresholdOf["s1"] = 1000
                   /\ HealthOf(2550, SlowThresholdOf["s1"]).color = "yellow"]_vars

\* the timer fires in this step: the armed timer is replaced or consumed
\* (no timer is armed while a callback runs, so a settling callback is not
\* such a step)
C28_TimerFires == timeoutId # Null /\ timeoutId' # timeoutId

\* C28: when the timer fires for a boundary whose completed bucket is the
\* last finalized one or the one being finalized, the callback is not
\* invoked (no new invocation, the accumulator is not drained), both
\* watermarks keep their values, and a timer is armed for the first
\* boundary at or after the current instant
C28_DoubleFireGuard ==
    [][(/\ C28_TimerFires
        /\ \/ timeoutId - BUCKET_SIZE_MS = lastEmitted
           \/ timeoutId - BUCKET_SIZE_MS = runningBoundary) =>
          /\ emitted' = emitted
          /\ cbs' = cbs
          /\ data' = data
          /\ lastEmitted' = lastEmitted
          /\ runningBoundary' = runningBoundary
          /\ timeoutId' # Null
          /\ timeoutId' = C26_BoundaryFrom(now)]_vars

\* the timer armed for the boundary of the bucket finalized last is
\* overdue: its firing re-arms it for a later boundary
C28_Witness ==
    /\ timeoutId # Null
    /\ lastEmitted # Null
    /\ timeoutId - BUCKET_SIZE_MS = lastEmitted
    /\ lastEmitted \in DOMAIN settled
    /\ now > timeoutId

\* C29: the timer is armed, at start-up and whenever it is armed again, for
\* boundary = ceil(now / width) * width of the instant of arming; the
\* bucket start passed to the callback is that boundary minus the width
\* and a multiple of the width; when the timer fired at or after its
\* boundary the bucket has fully elapsed at the invocation
C29_CompletedBucket ==
    /\ timeoutId = C26_BoundaryFrom(now)
    /\ [][/\ (timeoutId' # Null /\ timeoutId' # timeoutId)
                => timeoutId' = C26_BoundaryFrom(now)
          /\ Len(emitted') > Len(emitted) =>
                LET completedHour == emitted'[Len(emitted')]
                IN  /\ completedHour = timeoutId - BUCKET_SIZE_MS
                    /\ completedHour % BUCKET_SIZE_MS = 0
                    /\ now >= timeoutId
                          => completedHour + BUCKET_SIZE_MS <= now]_vars

\* the callback was just invoked, by a timer that fired at or after its
\* boundary, for a second bucket
C29_Witness ==
    /\ Len(emitted) >= 2
    /\ \E b \in DOMAIN cbs :
          /\ emitted[Len(emitted)] = b
          /\ cbs[b].pc = "read"
          /\ cbs[b].idx = 1
          /\ now >= b + BUCKET_SIZE_MS

\* the Snapshots the store holds for service s and bucket b
C30_SnapshotsOf(fs, s, b) ==
    LET snaps == LoadShard(fs[ShardKey(s, b)])
    IN  {snaps[i] : i \in EntriesFor(fs, s, b)}

\* C30: when the callback for bucket b fails on a storage operation, b
\* becomes the last finalized bucket and no aggregate for b is left in the
\* accumulator; from then on the callback is never invoked for b again and
\* no step adds or changes a Snapshot for b in the store
C30_FailedWriteNotRetried ==
    [][\A b \in BucketStarts :
          /\ (/\ b \in DOMAIN cbs
              /\ b \in DOMAIN settled'
              /\ ~settled'[b]) =>
                /\ lastEmitted' = b
                /\ \A s \in ServiceIds : b \notin DOMAIN data'[s]
          /\ (b \in DOMAIN settled /\ ~settled[b]) =>
                /\ b \notin DOMAIN cbs'
                /\ emitted' # Append(emitted, b)
                /\ b \in DOMAIN settled'
                /\ ~settled'[b]
                /\ \A s \in ServiceIds :
                      C30_SnapshotsOf(files', s, b)
                          \subseteq C30_SnapshotsOf(files, s, b)]_vars

\* the callback for a bucket failed before the Snapshot of some service
\* was stored, a later bucket has been finalized since, and the Snapshot is
\* still missing
C30_Witness ==
    \E b \in DOMAIN settled :
        /\ ~settled[b]
        /\ \E s \in ServiceIds : EntriesFor(files, s, b) = {}
        /\ lastEmitted > b
        /\ settled[lastEmitted]
        /\ \A s \in ServiceIds : EntriesFor(files, s, lastEmitted) # {}

\* C31: a shard file with unparsable content is treated as empty:
\* readSnapshots answers every requested service and returns no entry out
\* of such a shard, and an upsert on it reads no existing entry, goes
\* through, and leaves the shard holding only the Snapshot just written.
C31_UnparsableShardIsEmpty ==
    [][/\ (call'.op = "readSnapshots" /\ call' # call) =>
            /\ DOMAIN call'.result = {call'.ids[i] : i \in 1..Len(call'.ids)}
            /\ \A s \in DOMAIN call'.result :
                 \A i \in 1..Len(call'.result[s]) :
                     ~files[ShardKey(s, call'.result[s][i].hour_utc_ms)].partial
       /\ (/\ seed.pc = "read"
           /\ seed'.pc = "write"
           /\ files[ShardKey(Services[seed.idx], seed.t)].partial) =>
            seed'.existingData = <<>>
       /\ \A k \in ShardKeys :
            (files[k].partial /\ files'[k] # files[k]) =>
                /\ seed.pc = "rename"
                /\ k = ShardKey(Services[seed.idx], seed.t)
                /\ files'[k] = FullFile(<<[hour_utc_ms |-> seed.t,
                                           ping_ms |-> seed.ping]>>)]_vars

\* a read has skipped an unparsable shard that holds bytes of an entry in
\* the asked range, and an upsert on an unparsable shard is about to
\* rename a file holding only its own Snapshot over it
C31_Witness ==
    /\ call.op = "readSnapshots"
    /\ \E s \in DOMAIN call.result : \E m \in Months :
         /\ call.result[s] = <<>>
         /\ files[<<s, m>>].partial
         /\ \E i \in 1..Len(files[<<s, m>>].data) :
              /\ files[<<s, m>>].data[i].hour_utc_ms >= call.fromUtcMs
              /\ files[<<s, m>>].data[i].hour_utc_ms <= call.toUtcMs
    /\ seed.pc = "rename"
    /\ files[ShardKey(Services[seed.idx], seed.t)].partial
    /\ seed.tmp = FullFile(<<[hour_utc_ms |-> seed.t, ping_ms |-> seed.ping]>>)

\* the buckets finalization has drained so far
DrainedBuckets == {emitted[i] : i \in 1..Len(emitted)}

\* C32: once finalization has drained bucket B the accumulator never again
\* holds an aggregate for B: no sample is recorded into a drained bucket.
C32_NoAggregateAfterDrain ==
    \A s \in ServiceIds : DOMAIN data[s] \cap DrainedBuckets = {}

\* the total count of the aggregate of service s and bucket b in d, 0 when
\* there is none
TotalIn(d, s, b) == IF b \in DOMAIN d[s] THEN d[s][b].samples_total ELSE 0

\* C33: every sample of a poll tick, those of retries and of late responses
\* included, is recorded with the instant at which the tick started: the
\* sequences of a tick carry the clock reading of performPoll unchanged,
\* and each recording adds one sample to the aggregate of the bucket of
\* that instant, stamps it with that instant and touches no other bucket.
C33_TickInstant ==
    [][/\ \A q \in DOMAIN seqs' :
            IF q \in DOMAIN seqs
            THEN seqs'[q].nowMs = seqs[q].nowMs
            ELSE seqs'[q].nowMs = now
       /\ data' # data =>
            \E q \in DOMAIN seqs :
                LET b == hourBucketUtcMs(seqs[q].nowMs)
                IN  /\ TotalIn(data', q[2], b) = TotalIn(data, q[2], b) + 1
                    /\ data'[q[2]][b].last_check_ms = seqs[q].nowMs
                    /\ \A s \in ServiceIds : \A b2 \in BucketStarts :
                         <<s, b2>> # <<q[2], b>> =>
                             /\ (b2 \in DOMAIN data'[s]) = (b2 \in DOMAIN data[s])
                             /\ b2 \in DOMAIN data[s] => data'[s][b2] = data[s][b2]]_vars

\* a tick that started in one bucket still has a request in flight in the
\* next one, after a retry; all its samples so far are in the bucket of
\* its start and none in the open bucket
C33_Witness ==
    \E q \in DOMAIN seqs :
        LET b == hourBucketUtcMs(seqs[q].nowMs)
        IN  /\ hourBucketUtcMs(now) > b
            /\ seqs[q].attempt >= 2
            /\ seqs[q].recorded >= 2
            /\ b \in DOMAIN data[q[2]]
            /\ data[q[2]][b].samples_total = seqs[q].recorded
            /\ hourBucketUtcMs(now) \notin DOMAIN data[q[2]]

\* the outcome flags of a run of samples, in arrival order
FlagsOf(run) == [i \in 1..Len(run) |-> run[i][1]]

\* the last n elements of a sequence
LastOf(seq, n) == SubSeq(seq, Len(seq) - n + 1, Len(seq))

\* the aggregate a service has after the samples of run alone
AggregateOfRun(run) ==
    RecordRun([s \in ServiceIds |-> EmptyFn], "s1", 0, run)["s1"][0]

\* successful count = number of stored latencies <= total count, total
\* count >= 1, the ring as long as min(total count, 10)
C34_WellFormed(agg) ==
    /\ agg.samples_ok = Len(agg.success_latencies)
    /\ agg.samples_ok <= agg.samples_total
    /\ agg.samples_total >= 1
    /\ Len(agg.recent_results) = Min(agg.samples_total, 10)

\* C34: in every reachable accumulator state each aggregate has
\* successful count = number of stored latencies <= total count and total
\* count >= 1, and its ring holds exactly the last min(total count, 10)
\* outcome flags in arrival order: so it is after any run of samples from
\* an empty bucket, and every further sample appends its flag and pushes
\* out the oldest one once ten are held.
C34_AggregateInvariant ==
    /\ \A r1 \in LiveRuns : \A r2 \in LiveRuns :
         LET run == r1 \o r2
         IN  run # <<>> =>
               /\ C34_WellFormed(AggregateOfRun(run))
               /\ AggregateOfRun(run).recent_results =
                      LastOf(FlagsOf(run), Min(Len(run), 10))
    /\ [](\A s \in ServiceIds : \A b \in DOMAIN data[s] : C34_WellFormed(data[s][b]))
    /\ [][(call'.op = "recordSample" /\ call' # call) =>
            LET s == call'.serviceId
                b == hourBucketUtcMs(call'.timestampMs)
                before == IF b \in DOMAIN data[s] THEN data[s][b].recent_results
                          ELSE <<>>
                flags == Append(before, call'.ok)
            IN  /\ b \in DOMAIN data'[s]
                /\ data'[s][b].recent_results = LastOf(flags, Min(Len(flags), 10))]_vars

\* a sample was recorded into an aggregate that already held ten: the ring
\* is full, ends in the flag of that sample, and counts fewer successes
\* than samples
C34_Witness ==
    /\ call.op = "recordSample"
    /\ LET s == call.serviceId
           b == hourBucketUtcMs(call.timestampMs)
       IN  /\ b \in DOMAIN data[s]
           /\ data[s][b].samples_total > 10
           /\ Len(data[s][b].recent_results) = 10
           /\ data[s][b].recent_results[10] = call.ok
           /\ data[s][b].samples_ok < data[s][b].samples_total

\* C35: the store mutations of the server process are strictly sequential:
\* at most one finalization callback exists, it is at one step of one
\* upsert or at the pruning; it moves to the next service only when the
\* rename of the one before resolved, starts pruning only after the
\* upsert of the last service, and every change of a file (the temporary
\* file or a shard) is a step of that one callback.
C35_SequentialMutations ==
    /\ [](Cardinality(DOMAIN cbs) <= 1)
    /\ [][/\ \A b \in DOMAIN cbs \cap DOMAIN cbs' :
               /\ cbs'[b].idx # cbs[b].idx =>
                    /\ cbs[b].pc = "rename" /\ cbs'[b].pc = "read"
                    /\ cbs'[b].idx = cbs[b].idx + 1
                    /\ <<Services[cbs[b].idx], b>> \in DOMAIN written'
               /\ (cbs'[b].pc = "prune" /\ cbs[b].pc # "prune") =>
                    /\ cbs[b].pc = "rename"
                    /\ \A s \in ServiceIds : <<s, b>> \in DOMAIN written'
               /\ cbs'[b].tmp # cbs[b].tmp =>
                    cbs[b].pc \in {"write", "writing", "rename"}
          /\ files' # files =>
               \E b \in BucketStarts :
                   /\ DOMAIN cbs = {b}
                   /\ cbs[b].pc \in {"rename", "prune"}]_vars

\* the callback is writing the temporary file of the second service, the
\* Snapshot of the first one is in the store, and the boundary after the
\* callback's own has passed without a second callback
C35_Witness ==
    \E b \in DOMAIN cbs :
        /\ cbs[b].pc = "writing"
        /\ cbs[b].idx = 2
        /\ <<Services[1], b>> \in DOMAIN written
        /\ now >= b + 2 * BUCKET_SIZE_MS

\* C36: when the upsert of one service fails during the finalization of
\* bucket b, the finalization stops there: the step of the failure changes
\* no file (no pruning runs, the Snapshots of b written for the services
\* before the failing one are in their shards), and the services from the
\* failing one on get no Snapshot for b, then or later: the services for
\* which one was written are a proper prefix of the configured order.
C36_FailedUpsertStopsFinalization ==
    /\ [](\A b \in DOMAIN settled :
            ~settled[b] =>
                \E k \in 0..(Len(Services) - 1) :
                    \A i \in 1..Len(Services) :
                        (<<Services[i], b>> \in DOMAIN written) <=> (i <= k))
    /\ [][\A b \in DOMAIN cbs :
            (b \notin DOMAIN settled /\ b \in DOMAIN settled' /\ ~settled'[b]) =>
                /\ files' = files
                /\ written' = written
                /\ b \notin DOMAIN cbs'
                /\ \A i \in 1..Len(Services) :
                     IF i < cbs[b].idx
                     THEN C30_SnapshotsOf(files', Services[i], b) # {}
                     ELSE <<Services[i], b>> \notin DOMAIN written']_vars

\* the finalization of a bucket failed at the second service: the Snapshot
\* of the first service is in the store, the second has none, and a later
\* finalization has completed since
C36_Witness ==
    \E b \in DOMAIN settled : \E b2 \in DOMAIN settled :
        /\ ~settled[b]
        /\ b2 > b /\ settled[b2]
        /\ C30_SnapshotsOf(files, Services[1], b) # {}
        /\ <<Services[1], b>> \in DOMAIN written
        /\ <<Services[2], b>> \notin DOMAIN written

C38_PrunesByOwnMonth ==
    [][(call'.op = "pruneRetention" /\ call'.n # call.n) =>
          \A k \in (ConfigIds \X Months) :
              files'[k] = PruneOne(files[k], k[2], call'.cutoffMs)]_vars

\* the scheduler went past bucket b without finalizing it
C39_Skipped(b) ==
    /\ b \notin DrainedBuckets
    /\ \E i \in 1..Len(emitted) : emitted[i] > b

\* C39: an aggregate leaves the accumulator only when its own bucket is
\* drained, which the pipeline does only in the timer callback for the
\* bucket being finalized; an aggregate of a bucket the scheduler skipped
\* therefore stays in the accumulator for good, and no Snapshot of a
\* skipped bucket is ever written.
C39_SkippedBucketsStay ==
    /\ [](\A b \in BucketStarts :
            C39_Skipped(b) =>
                \A s \in ServiceIds :
                    /\ <<s, b>> \notin DOMAIN written
                    /\ C30_SnapshotsOf(files, s, b) = {})
    /\ [][\A s \in ServiceIds : \A b \in DOMAIN data[s] :
            /\ b \notin DOMAIN data'[s] =>
                 /\ emitted' = Append(emitted, b)
                 /\ b \in DOMAIN cbs' /\ s \in DOMAIN cbs'[b].acc
                 /\ \A s2 \in ServiceIds :
                      DOMAIN data'[s2] = DOMAIN data[s2] \ {b}
            /\ C39_Skipped(b) => (b \in DOMAIN data'[s] /\ C39_Skipped(b)')]_vars

\* an aggregate sits in a bucket the scheduler skipped while the callback
\* of a later bucket has already completed
C39_Witness ==
    \E s \in ServiceIds : \E b \in DOMAIN data[s] : \E b2 \in DOMAIN settled :
        /\ C39_Skipped(b)
        /\ b2 > b /\ settled[b2]

====
